---- MODULE Spec2Model ----
(***************************************************************************)
(* Model of the MCP client engine of openchat (src-tauri/src/mcp):         *)
(* the session cache McpManager, the stdio and HTTP sessions with their    *)
(* send operation, the session constructors and the one-shot probe         *)
(* check_server.  Callers are tokio tasks; a step of the model is the code *)
(* a task runs between two of its suspension points (.await).              *)
(***************************************************************************)
EXTENDS Integers, Sequences, FiniteSets, TLC

\* ---------------------------------------------------------------- bounds
\* Concurrent tasks calling into the engine.
Callers == {"t1", "t2"}
\* External session ids used as cache keys.
Ids == {1, 2}
\* Calls started over one run of concurrent tasks.
MaxCalls == 3
\* Calls started over one run of a single task.
MaxSeqCalls == 4
\* Largest timeout_ms a caller passes, in abstract ticks.
MaxTimeout == 2
\* Calls started over one run of a single task whose peers may exit.
MaxAppCalls == 2
\* Longest `content` array of a tools/call result.
MaxBlocks == 3
\* Longest `tools` array of a tools/list result.
MaxTools == 2
\* Largest magnitude of the small connect_timeout_ms values of a row.
MaxRowMs == 2
\* Longest argument string handed to sh_escape.
MaxArgLen == 3
\* Most arguments of a composed command line.
MaxArgs == 2
\* Longest `tools` array in a reply to the probe.
MaxProbeTools == 1
\* Calls started over one run of concurrent tasks under fair scheduling.
MaxLiveCalls == 3
\* Calls started on the MLX server manager over one run.
MaxMlxCalls == 3
\* Calls started on the MLC server manager over one run.
MaxMlcCalls == 2
\* Health checks one poll task makes before it gives up.
MaxPollAttempts == 1
\* Sends on the one stdio session whose pipes are followed byte by byte.
MaxPipeSends == 4
\* Width of the request-id counter (u64 in the code, narrowed here so that
\* the saturation of saturating_add is within reach of a bounded run).
IdBits == 2

U64_MAX == (2 ^ IdBits) - 1
Timeouts == 1..MaxTimeout

MCP_METHOD_INITIALIZE == "initialize"
MCP_METHOD_TOOLS_LIST == "tools/list"
MCP_METHOD_TOOLS_CALL == "tools/call"

ManagerOps == {"ensure_stdio", "ensure_http", "list_tools", "call_tool"}
EnsureOps == {"ensure_stdio", "ensure_http"}
UseOps == {"list_tools", "call_tool"}
CheckOps == {"check_stdio", "check_http"}

VARIABLES
    sessions,   \* McpManager.sessions: the HashMap<i64, McpSession>
    lock,       \* owner of the tokio Mutex around the map
    pc,         \* suspension point each task is parked at
    call,       \* the call each task is running, with its arguments
    local,      \* the session a constructor or the probe holds on its stack
    snd,        \* the send each task is in
    stats,      \* per running call: spawn attempts, client builds, sends,
                \* whether it found its id cached, and with a child gone
    children,   \* the child processes spawned so far: running, exited on
                \* their own, or killed
    ncalls,     \* calls started so far
    inserts,    \* how many times each id was inserted into the map
    lastSend,   \* the send that returned in the step just taken, if any
    lastCall,   \* the call that returned in the step just taken, if any,
                \* and the config row fetched in that step, if any
    calc,       \* a result value being post-processed, and what it gave
    pipe,       \* one stdio session with the pipes to its child, by the
                \* bytes they carry
    mlx,        \* the MLXServerManager and the tasks calling it
    mlc         \* the MLCServerManager, the tasks calling it and its
                \* health-poll tasks

vars == <<sessions, lock, pc, call, local, snd, stats, children, ncalls,
          inserts, lastSend, lastCall, calc, pipe, mlx, mlc>>

NoOne == "none"
\* DbMcpServer, by the cases the adapter tells apart: command / url / auth
\* NULL or not (a command that is not NULL is blank or names a program),
\* headers NULL, an object without Authorization or one with it.
NoRow == [enabled |-> 1, transport |-> "none", command |-> "null",
          url |-> "null", headers |-> "null", auth |-> "null"]
Rows == [enabled : {0, 1}, transport : {"stdio", "http", "sse"},
         command : {"null", "blank", "cmd"}, url : {"null", "url"},
         headers : {"null", "plain", "authz"}, auth : {"null", "token"}]
NoSession == [conn |-> 0, kind |-> "none", next_id |-> 0, sent |-> <<>>,
              ready |-> FALSE, headers |-> "null", token |-> FALSE]
NoCall == [op |-> "none", id |-> 0, timeout_ms |-> 0, list_timeout_ms |-> 0,
           n |-> 0, cmd |-> "none", headers |-> "null", token |-> FALSE,
           row |-> NoRow]
NoSend == [conn |-> 0, id |-> 0, method |-> "none", timeout_ms |-> 0,
           writes |-> 0, reads |-> 0, elapsed |-> 0, status |-> "none",
           authz |-> "none"]
NoSent == [res |-> "none", timeout_ms |-> 0, writes |-> 0, reads |-> 0,
           elapsed |-> 0]
NoStats == [spawns |-> 0, builds |-> 0, sends |-> 0, hit |-> FALSE,
            dead |-> FALSE]
NoReturn == [op |-> "none", id |-> 0, ok |-> FALSE, err |-> "none",
             spawns |-> 0, builds |-> 0, sends |-> 0, hit |-> FALSE,
             dead |-> FALSE, cmd |-> "none", row |-> NoRow]

Ok == [ok |-> TRUE, err |-> ""]
Err(e) == [ok |-> FALSE, err |-> e]

\* u64::saturating_add
SaturatingAdd(n, k) == IF n + k > U64_MAX THEN U64_MAX ELSE n + k

\* HashMap::contains_key / insert
ContainsKey(m, id) == id \in DOMAIN m
Insert(m, id, s) == [k \in (DOMAIN m) \cup {id} |-> IF k = id THEN s ELSE m[k]]

\* StdioSession::new / HttpSession::new: the counter starts at 0 and an
\* http session keeps the headers it is given.  conn names the session
\* object; sent lists the request ids it has carried, ready records that
\* its initialize request returned success and token that the config row
\* it was built from carried an auth token.
NewSession(conn, kind, headers, token) ==
    [conn |-> conn, kind |-> kind, next_id |-> 0, sent |-> <<>>, ready |-> FALSE,
     headers |-> headers, token |-> token]

NoCalc == [fn |-> "none", arg |-> <<>>, done |-> FALSE, out |-> <<>>,
           ok |-> FALSE]

Engine ==
    /\ sessions = <<>>
    /\ lock = NoOne
    /\ pc = [c \in Callers |-> "idle"]
    /\ call = [c \in Callers |-> NoCall]
    /\ local = [c \in Callers |-> NoSession]
    /\ snd = [c \in Callers |-> NoSend]
    /\ stats = [c \in Callers |-> NoStats]
    /\ children = <<>>
    /\ ncalls = 0
    /\ inserts = [id \in Ids |-> 0]
    /\ lastSend = NoSent
    /\ lastCall = NoReturn

\* No stdio session under watch, no server manager in use.
NoPipe == [pc |-> "none"]
NoMlx == [pc |-> "none"]
NoMlc == [pc |-> "none"]
Others == pipe = NoPipe /\ mlx = NoMlx /\ mlc = NoMlc

Init == Engine /\ calc = NoCalc /\ Others

\* ------------------------------------------------------- shared fragments
\* (as if the map were not behind a mutex at all)
LockFreeAlways == TRUE

\* tokio::sync::Mutex::lock resolves only while nobody owns the mutex.
LockFree == lock = NoOne

\* (as if a manager operation that fails kept its guard)
GuardKeptOnError(k, res) ==
    IF k.op \in ManagerOps /\ res.ok THEN NoOne ELSE lock

\* The MutexGuard `sessions` of a manager operation goes out of scope when
\* the operation returns, by `?` or at its end; the probe holds none.
GuardDropped(k, res) == IF k.op \in ManagerOps THEN NoOne ELSE lock

\* A step of a call ends in one of three ways.  Return: the result is
\* handed back, the MutexGuard (manager operations) and the local session
\* go out of scope.
Return(c, k, res, st, newSessions, newChildren) ==
    /\ pc' = [pc EXCEPT ![c] = "idle"]
    /\ call' = [call EXCEPT ![c] = NoCall]
    /\ lastCall' = [op |-> k.op, id |-> k.id, ok |-> res.ok, err |-> res.err,
                    spawns |-> st.spawns, builds |-> st.builds,
                    sends |-> st.sends, hit |-> st.hit, dead |-> st.dead,
                    cmd |-> k.cmd, row |-> k.row]
    /\ stats' = [stats EXCEPT ![c] = NoStats]
    /\ lock' = GuardDropped(k, res)
    /\ inserts' = [id \in Ids |->
                     IF id \in DOMAIN newSessions
                        /\ (id \in DOMAIN sessions => newSessions[id].conn # sessions[id].conn)
                     THEN inserts[id] + 1 ELSE inserts[id]]
    /\ local' = [local EXCEPT ![c] = NoSession]
    /\ snd' = [snd EXCEPT ![c] = NoSend]
    /\ sessions' = newSessions
    /\ children' = newChildren

\* Park: the task suspends at `where` (the mutex or the spawn).
Park(c, k, st, where, holder) ==
    /\ pc' = [pc EXCEPT ![c] = where]
    /\ call' = [call EXCEPT ![c] = [k EXCEPT !.row = NoRow]]
    /\ stats' = [stats EXCEPT ![c] = st]
    /\ lock' = holder
    /\ lastCall' = [NoReturn EXCEPT !.row = k.row]
    /\ UNCHANGED <<local, snd, sessions, children, inserts>>

\* The head of send: `self.next_id = self.next_id.saturating_add(1)` and
\* the request that carries the new value.
BumpId(s) ==
    LET n == SaturatingAdd(s.next_id, 1) IN
    [s EXCEPT !.next_id = n, !.sent = Append(@, n)]

\* HttpSession::send, "Apply headers if present": the Authorization header
\* the request carries ("row": the one of the row's headers).
HeaderSent(s) ==
    CASE s.kind = "http" /\ s.headers = "authz" -> "row"
      [] s.kind = "http" /\ s.headers = "merged" -> "token"
      [] OTHER -> "none"

\* StartSend: send runs to its first suspension point, the write (stdio)
\* or the POST (http).  list_tools and call_tool send on the cached session
\* (get_mut), the constructors and the probe on the one they hold.
StartSend(c, k, st, s, method, t, holder, newChildren) ==
    LET s2 == BumpId(s) IN
    /\ snd' = [snd EXCEPT ![c] =
                 [conn |-> s.conn, id |-> s2.next_id, method |-> method,
                  timeout_ms |-> t, writes |-> 0, reads |-> 0, elapsed |-> 0,
                  status |-> "none", authz |-> HeaderSent(s)]]
    /\ pc' = [pc EXCEPT ![c] = IF s.kind = "stdio" THEN "write" ELSE "http"]
    /\ IF k.op \in UseOps
       THEN /\ sessions' = [sessions EXCEPT ![k.id] = s2]
            /\ local' = local
       ELSE /\ local' = [local EXCEPT ![c] = s2]
            /\ sessions' = sessions
    /\ call' = [call EXCEPT ![c] = [k EXCEPT !.row = NoRow]]
    /\ stats' = [stats EXCEPT ![c] = [st EXCEPT !.sends = @ + 1]]
    /\ lock' = holder
    /\ children' = newChildren
    /\ lastCall' = [NoReturn EXCEPT !.row = k.row]
    /\ inserts' = inserts

\* Child::kill on the child of a stdio session (no-op for http, and an
\* error that the caller drops for a child that has already exited).
KillChild(cs, s) ==
    IF s.kind = "stdio" /\ cs[s.conn] = "running"
    THEN [cs EXCEPT ![s.conn] = "killed"] ELSE cs

\* The child of a stdio session is no longer running.
Gone(s) == s.kind = "stdio" /\ children[s.conn] # "running"

\* (as if the result of initialize were dropped: `let _ = send(..).await;`)
InitAcceptedAlways(res) == TRUE

\* spawn_stdio_session and create_http_session propagate a failed
\* initialize with `?`: the session reaches the caller only on success.
InitAccepted(res) == res.ok

\* create_http_session up to its first suspension point (the session object
\* is named after the call that builds it).
CreateHttpSession(c, k, st, built, holder) ==
    IF ~built
    THEN Return(c, k, Err("client build error"), st, sessions, children)
    ELSE StartSend(c, k, st, NewSession(k.n, "http", k.headers, k.token),
                   MCP_METHOD_INITIALIZE,
                   k.timeout_ms, holder, children)

\* ------------------------------------------------ the manager operations
\* (as if an entry counted only for the transport kind that asks)
EnsureHitSameKind(k) ==
    /\ ContainsKey(sessions, k.id)
    /\ sessions[k.id].kind = (IF k.op = "ensure_stdio" THEN "stdio" ELSE "http")

\* (as if the early return were missing)
EnsureHitNever(k) == FALSE

\* (as if an entry whose child is gone did not count and were reconnected)
EnsureHitAlive(k) == ContainsKey(sessions, k.id) /\ ~Gone(sessions[k.id])

\* `if sessions.contains_key(&id) { return Ok(()) }` of both ensure calls
EnsureHit(k) == ContainsKey(sessions, k.id)

\* (as if a missing session gave an empty success)
NotConnectedAsOk == Ok

\* `sessions.get_mut(&id).ok_or("not connected")?` of list_tools / call_tool
NotConnected == Err("not connected")

MethodOf(op) ==
    IF op = "list_tools" THEN MCP_METHOD_TOOLS_LIST ELSE MCP_METHOD_TOOLS_CALL

\* (as if the guard were dropped before the first suspension)
HeldDropped(c) == NoOne

\* `let mut sessions = self.sessions.lock().await;`: the guard lives to the
\* end of the function, so the task owns the mutex across its suspensions.
Held(c) == c

\* A manager operation from the moment it owns the mutex to its next
\* suspension point or its return.
Locked(c, k, st0) ==
    LET st == [st0 EXCEPT !.hit = ContainsKey(sessions, k.id),
                          !.dead = ContainsKey(sessions, k.id)
                                      /\ Gone(sessions[k.id])]
    IN
    CASE k.op \in EnsureOps /\ EnsureHit(k) ->
           Return(c, k, Ok, st, sessions, children)
      [] k.op = "ensure_stdio" /\ ~EnsureHit(k) ->
           Park(c, k, st, "spawn", Held(c))
      [] k.op = "ensure_http" /\ ~EnsureHit(k) ->
           \E built \in BOOLEAN :
              CreateHttpSession(c, k, [st EXCEPT !.builds = @ + 1], built, Held(c))
      [] k.op \in UseOps ->
           IF ContainsKey(sessions, k.id)
           THEN StartSend(c, k, st, sessions[k.id], MethodOf(k.op), k.timeout_ms,
                          Held(c), children)
           ELSE Return(c, k, NotConnected, st, sessions, children)

\* A task calls a manager operation: `self.sessions.lock().await` resolves
\* at once when the mutex is free, and suspends the task otherwise.  (limit
\* caps the calls of a run.)
ManagerEnter(c, k) ==
    IF LockFree THEN Locked(c, k, NoStats) ELSE Park(c, k, NoStats, "lock", lock)

ManagerCall(c, op, id, t, limit) ==
    LET k == [NoCall EXCEPT !.op = op, !.id = id, !.timeout_ms = t,
                            !.n = ncalls + 1,
                            !.cmd = IF op = "ensure_stdio" THEN "cmd" ELSE "none"]
    IN
    /\ pc[c] = "idle"
    /\ ncalls < limit
    /\ ncalls' = ncalls + 1
    /\ UNCHANGED <<calc, pipe, mlx, mlc>>
    /\ lastSend' = NoSent
    /\ ManagerEnter(c, k)

ensure_stdio(c, id, t, limit) == ManagerCall(c, "ensure_stdio", id, t, limit)
ensure_http(c, id, t, limit) == ManagerCall(c, "ensure_http", id, t, limit)
list_tools(c, id, t, limit) == ManagerCall(c, "list_tools", id, t, limit)
call_tool(c, id, t, limit) == ManagerCall(c, "call_tool", id, t, limit)

\* The rows of the database that ensure_mcp_session would connect: enabled,
\* stdio with a command that names a program or http with a url (other
\* columns NULL).
ConnectableRows ==
    {row \in Rows : /\ row.enabled = 1
                    /\ row.headers = "null" /\ row.auth = "null"
                    /\ \/ /\ row.transport = "stdio"
                          /\ row.command = "cmd" /\ row.url = "null"
                       \/ /\ row.transport = "http"
                          /\ row.url = "url" /\ row.command = "null"}

\* The commands mcp_list_tools and mcp_call_tool as the frontend invokes
\* them, for an id for which the database holds `row` (NoRow: none): the
\* handler's body is the one manager call of `op`, so the row is not read
\* and no session is established here.
Command(c, op, id, row, t, limit) ==
    LET k == [NoCall EXCEPT !.op = op, !.id = id, !.timeout_ms = t,
                            !.n = ncalls + 1, !.row = row]
    IN
    /\ pc[c] = "idle"
    /\ ncalls < limit
    /\ ncalls' = ncalls + 1
    /\ UNCHANGED <<calc, pipe, mlx, mlc>>
    /\ lastSend' = NoSent
    /\ ManagerEnter(c, k)

\* A task suspended on the mutex gets it.
Acquire(c) ==
    /\ pc[c] = "lock"
    /\ LockFree
    /\ ncalls' = ncalls
    /\ UNCHANGED <<calc, pipe, mlx, mlc>>
    /\ lastSend' = NoSent
    /\ Locked(c, call[c], stats[c])

\* ------------------------------------------------ the config-row adapter
FetchOutcomes == {"row", "none", "error"}

\* (as if the enabled flag were not looked at)
FetchIgnoresEnabled(res, row) ==
    CASE res = "error" -> Err("db error")
      [] res = "none" -> Err("server not found")
      [] OTHER -> Ok

\* fetch_mcp_server: the query fails, finds no row, or finds one, which is
\* refused when its enabled flag is 0
FetchResult(res, row) ==
    CASE res = "error" -> Err("db error")
      [] res = "none" -> Err("server not found")
      [] row.enabled = 0 -> Err("server disabled")
      [] OTHER -> Ok

\* Transport::try_from
TransportOf(row) ==
    IF row.transport \in {"stdio", "http"} THEN Ok
    ELSE Err("unsupported transport")

\* (as if a NULL command were passed on as an empty one)
RowCommandDefault(row) == Ok

\* ensure_stdio_from_row: `row.command.as_deref().ok_or_else(..)?`
RowCommand(row) == IF row.command = "null" THEN Err("missing command") ELSE Ok

\* ensure_http_from_row: `row.url.as_deref().ok_or_else(..)?`
RowUrl(row) == IF row.url = "null" THEN Err("missing url") ELSE Ok

\* ensure_http_from_row: `parse_mcp_json_object_opt(row.headers.as_deref())`
\* is what is handed to ensure_http; row.auth is not read.
RowHeaders(row) == row.headers

\* ensure_mcp_session up to its first suspension point, the query.
ensure_mcp_session(c, id, limit) ==
    LET k == [NoCall EXCEPT !.op = "ensure_mcp_session", !.id = id,
                            !.n = ncalls + 1]
    IN
    /\ pc[c] = "idle"
    /\ ncalls < limit
    /\ ncalls' = ncalls + 1
    /\ UNCHANGED <<calc, pipe, mlx, mlc>>
    /\ lastSend' = NoSent
    /\ Park(c, k, NoStats, "fetch", lock)

\* The query resolves: ensure_mcp_session checks the row and calls
\* ensure_stdio or ensure_http with what the row holds (t: the connect
\* timeout).
Fetched(c, res, row, t) ==
    LET k == [call[c] EXCEPT !.row = row] IN
    /\ pc[c] = "fetch"
    /\ ncalls' = ncalls
    /\ UNCHANGED <<calc, pipe, mlx, mlc>>
    /\ lastSend' = NoSent
    /\ CASE ~FetchResult(res, row).ok ->
              Return(c, k, FetchResult(res, row), NoStats, sessions, children)
         [] FetchResult(res, row).ok /\ ~TransportOf(row).ok ->
              Return(c, k, TransportOf(row), NoStats, sessions, children)
         [] FetchResult(res, row).ok /\ row.transport = "stdio" ->
              IF RowCommand(row).ok
              THEN ManagerEnter(c, [k EXCEPT !.op = "ensure_stdio",
                                             !.cmd = row.command,
                                             !.timeout_ms = t])
              ELSE Return(c, k, RowCommand(row), NoStats, sessions, children)
         [] FetchResult(res, row).ok /\ row.transport = "http" ->
              IF RowUrl(row).ok
              THEN ManagerEnter(c, [k EXCEPT !.op = "ensure_http",
                                             !.headers = RowHeaders(row),
                                             !.token = (row.auth = "token"),
                                             !.timeout_ms = t])
              ELSE Return(c, k, RowUrl(row), NoStats, sessions, children)

\* ------------------------------------------------ the probe
\* check_server takes no lock and no id: it runs on a session of its own.
check_server(c, kind, t, lt, blank, built, limit) ==
    LET k == [NoCall EXCEPT
                 !.op = IF kind = "stdio" THEN "check_stdio" ELSE "check_http",
                 !.timeout_ms = t, !.list_timeout_ms = lt, !.n = ncalls + 1,
                 !.cmd = IF kind # "stdio" THEN "none"
                         ELSE IF blank THEN "blank" ELSE "cmd"]
    IN
    /\ pc[c] = "idle"
    /\ ncalls < limit
    /\ ncalls' = ncalls + 1
    /\ UNCHANGED <<calc, pipe, mlx, mlc>>
    /\ lastSend' = NoSent
    /\ IF kind = "stdio"
       THEN IF blank
            THEN Return(c, k, Err("Command cannot be empty"), NoStats,
                        sessions, children)
            ELSE Park(c, k, NoStats, "spawn", lock)
       ELSE CreateHttpSession(c, k, [NoStats EXCEPT !.builds = 1], built, lock)

\* (as if a failed tools/list were reported as a success without tools)
CheckToolsFailedAsOk(op) == Ok

\* check_server: the `Err` arm of `match tools_res`
CheckToolsFailed(op) ==
    Err(IF op = "check_stdio" THEN "Failed to request tools/list"
        ELSE "Failed HTTP tools/list")

\* ------------------------------------------------ a send returns
\* What the caller of send does with its result, up to the caller's next
\* suspension point or return.
SendReturns(c, fin, res) ==
    LET k == call[c]
        st == stats[c]
    IN
    /\ lastSend' = [res |-> IF res.ok THEN "ok" ELSE res.err,
                    timeout_ms |-> fin.timeout_ms, writes |-> fin.writes,
                    reads |-> fin.reads, elapsed |-> fin.elapsed]
    /\ ncalls' = ncalls
    /\ UNCHANGED <<calc, pipe, mlx, mlc>>
    /\ CASE k.op \in EnsureOps ->
              IF InitAccepted(res)
              THEN Return(c, k, Ok, st,
                          Insert(sessions, k.id, [local[c] EXCEPT !.ready = res.ok]),
                          children)
              ELSE Return(c, k, res, st, sessions, children)
         [] k.op \in UseOps ->
              Return(c, k, res, st, sessions, children)
         [] k.op \in CheckOps /\ fin.method = MCP_METHOD_INITIALIZE ->
              IF InitAccepted(res)
              THEN StartSend(c, k, st, [local[c] EXCEPT !.ready = res.ok],
                             MCP_METHOD_TOOLS_LIST, k.list_timeout_ms, lock, children)
              ELSE Return(c, k, res, st, sessions, children)
         [] k.op \in CheckOps /\ fin.method = MCP_METHOD_TOOLS_LIST ->
              IF res.ok
              THEN Return(c, k, Ok, st, sessions, KillChild(children, local[c]))
              ELSE Return(c, k, CheckToolsFailed(k.op), st, sessions,
                          KillChild(children, local[c]))

\* ------------------------------------------------ suspension points resolve
SpawnOutcomes == {"ok", "error", "timeout"}

\* `.map_err(..).and_then(..)?` on the spawn: a failed or timed-out spawn
\* leaves spawn_stdio_session at once
SpawnNext(outcome) == IF outcome = "ok" THEN "send" ELSE "return"

\* spawn_stdio_session: `timeout(connect_timeout_ms, async { cmd.spawn() })`
\* resolves; on success the pipes are taken, the session is built and the
\* initialize request is started.
Spawned(c, outcome) ==
    LET k == call[c]
        st == [stats[c] EXCEPT !.spawns = @ + 1]
    IN
    /\ pc[c] = "spawn"
    /\ ncalls' = ncalls
    /\ UNCHANGED <<calc, pipe, mlx, mlc>>
    /\ lastSend' = NoSent
    /\ CASE SpawnNext(outcome) = "send" ->
              StartSend(c, k, st, NewSession(k.n, "stdio", "null", FALSE),
                        MCP_METHOD_INITIALIZE, k.timeout_ms, lock,
                        Insert(children, k.n, "running"))
         [] SpawnNext(outcome) = "return" ->
              Return(c, k,
                     Err(IF outcome = "timeout" THEN "spawn timeout" ELSE "spawn error"),
                     st, sessions, children)
         [] OTHER -> Park(c, k, st, SpawnNext(outcome), lock)

\* A suspension under a deadline of t ticks that has run for `used` of them
\* resolves on its own after d < t - used further ticks, or by the deadline.
Resolves(outcome, d, t, used) ==
    IF outcome = "timeout" THEN d = t - used ELSE d \in 0..(t - used - 1)

WriteOutcomes == {"ok", "error", "timeout"}

\* A pipe whose reading end is gone refuses the write (EPIPE).
WritePossible(child) == IF child = "running" THEN WriteOutcomes ELSE {"error"}

\* (as if a timed-out write were tried again)
WriteRetry(outcome) ==
    IF outcome = "ok" THEN "read" ELSE IF outcome = "timeout" THEN "write" ELSE "return"

\* `match write_res` of StdioSession::send: where the send goes next
WriteNext(outcome) == IF outcome = "ok" THEN "read" ELSE "return"

\* StdioSession::send: `timeout(timeout_ms, stdin.write_all(line))` resolves.
Written(c, outcome, d) ==
    LET s1 == [snd[c] EXCEPT !.writes = @ + 1, !.elapsed = @ + d] IN
    /\ pc[c] = "write"
    /\ outcome \in WritePossible(children[snd[c].conn])
    /\ Resolves(outcome, d, snd[c].timeout_ms, 0)
    /\ IF WriteNext(outcome) = "return"
       THEN SendReturns(c, s1, Err(IF outcome = "timeout" THEN "write timeout"
                                   ELSE "write error"))
       ELSE /\ pc' = [pc EXCEPT ![c] = WriteNext(outcome)]
            /\ snd' = [snd EXCEPT ![c] = s1]
            /\ lastSend' = NoSent
            /\ lastCall' = NoReturn
            /\ UNCHANGED <<sessions, lock, call, local, stats, children, ncalls,
                           inserts, calc, pipe, mlx, mlc>>

\* What a response document decodes to: `serde_json::from_str`, then the
\* `error` member wins, then `result` or null.
Documents == {"result", "error_member", "neither", "malformed"}
Decode(doc) ==
    CASE doc = "malformed" -> Err("parse error")
      [] doc = "error_member" -> Err("rpc error")
      [] OTHER -> Ok

\* "eof": read_line returns Ok(0) and the empty buffer fails to parse.
ReadOutcomes == Documents \cup {"eof", "io_error", "timeout"}
ReadResult(outcome) ==
    CASE outcome = "timeout" -> Err("read timeout")
      [] outcome = "io_error" -> Err("read error")
      [] outcome = "eof" -> Decode("malformed")
      [] OTHER -> Decode(outcome)

\* A pipe whose writing end is gone delivers what it still holds and then
\* the end of the stream; the read does not stay pending.
ReadPossible(child) ==
    IF child = "running" THEN ReadOutcomes ELSE ReadOutcomes \ {"timeout"}

\* StdioSession::send: `timeout(timeout_ms, reader.read_line(buf))` resolves
\* under a deadline of its own, the line is decoded and send returns.
ReadLine(c, outcome, d) ==
    LET s1 == [snd[c] EXCEPT !.reads = @ + 1, !.elapsed = @ + d] IN
    /\ pc[c] = "read"
    /\ outcome \in ReadPossible(children[snd[c].conn])
    /\ Resolves(outcome, d, snd[c].timeout_ms, 0)
    /\ SendReturns(c, s1, ReadResult(outcome))

HttpOutcomes == {"2xx", "non2xx", "error", "timeout"}

\* HttpSession::send: `request.send().await` resolves under the request's
\* total timeout (`.timeout(timeout_ms)`).
HttpResponded(c, outcome, d) ==
    LET s1 == [snd[c] EXCEPT !.writes = @ + 1, !.elapsed = @ + d] IN
    /\ pc[c] = "http"
    /\ Resolves(outcome, d, snd[c].timeout_ms, 0)
    /\ IF outcome \in {"2xx", "non2xx"}
       THEN /\ pc' = [pc EXCEPT ![c] = "body"]
            /\ snd' = [snd EXCEPT ![c] = [s1 EXCEPT !.status = outcome]]
            /\ lastSend' = NoSent
            /\ lastCall' = NoReturn
            /\ UNCHANGED <<sessions, lock, call, local, stats, children, ncalls,
                           inserts, calc, pipe, mlx, mlc>>
       ELSE SendReturns(c, s1, Err(IF outcome = "timeout" THEN "http timeout"
                                   ELSE "http error"))

BodyOutcomes == Documents \cup {"error", "timeout"}
BodyResult(status, outcome) ==
    CASE outcome = "timeout" -> Err("http timeout")
      [] outcome = "error" -> Err("http error")
      [] status = "non2xx" -> Err("http status")
      [] OTHER -> Decode(outcome)

\* HttpSession::send: `resp.text().await` resolves within what is left of
\* the request's total timeout; the status is checked and the body decoded.
BodyRead(c, outcome, d) ==
    LET s1 == [snd[c] EXCEPT !.reads = @ + 1, !.elapsed = @ + d] IN
    /\ pc[c] = "body"
    /\ Resolves(outcome, d, snd[c].timeout_ms, snd[c].elapsed)
    /\ SendReturns(c, s1, BodyResult(snd[c].status, outcome))

Durations == 0..MaxTimeout
Kinds == {"stdio", "http"}

ResolveIO ==
    \/ \E c \in Callers, o \in SpawnOutcomes : Spawned(c, o)
    \/ \E c \in Callers, o \in WriteOutcomes, d \in Durations : Written(c, o, d)
    \/ \E c \in Callers, o \in ReadOutcomes, d \in Durations : ReadLine(c, o, d)
    \/ \E c \in Callers, o \in HttpOutcomes, d \in Durations : HttpResponded(c, o, d)
    \/ \E c \in Callers, o \in BodyOutcomes, d \in Durations : BodyRead(c, o, d)

\* Concurrent tasks, every timeout one tick.
Next ==
    \/ \E c \in Callers, id \in Ids : ensure_stdio(c, id, 1, MaxCalls)
    \/ \E c \in Callers, id \in Ids : ensure_http(c, id, 1, MaxCalls)
    \/ \E c \in Callers, id \in Ids : list_tools(c, id, 1, MaxCalls)
    \/ \E c \in Callers, id \in Ids : call_tool(c, id, 1, MaxCalls)
    \/ \E c \in Callers, kind \in Kinds, blank \in BOOLEAN, built \in BOOLEAN :
          check_server(c, kind, 1, 1, blank, built, MaxCalls)
    \/ \E c \in Callers : Acquire(c)
    \/ ResolveIO

Spec == Init /\ [][Next]_vars

\* Concurrent tasks under the guarantees the runtime gives: a suspension
\* point under a deadline resolves (by its deadline at the latest), and the
\* mutex serves its waiters first come, first served, so a task that waits
\* for it gets it.
Resolved(c) ==
    \/ \E o \in SpawnOutcomes : Spawned(c, o)
    \/ \E o \in WriteOutcomes, d \in Durations : Written(c, o, d)
    \/ \E o \in ReadOutcomes, d \in Durations : ReadLine(c, o, d)
    \/ \E o \in HttpOutcomes, d \in Durations : HttpResponded(c, o, d)
    \/ \E o \in BodyOutcomes, d \in Durations : BodyRead(c, o, d)

LiveNext ==
    \/ \E c \in Callers, id \in Ids : ensure_stdio(c, id, 1, MaxLiveCalls)
    \/ \E c \in Callers, id \in Ids : ensure_http(c, id, 1, MaxLiveCalls)
    \/ \E c \in Callers, id \in Ids : list_tools(c, id, 1, MaxLiveCalls)
    \/ \E c \in Callers, id \in Ids : call_tool(c, id, 1, MaxLiveCalls)
    \/ \E c \in Callers : Acquire(c)
    \/ \E c \in Callers : Resolved(c)

LiveSpec ==
    /\ Init
    /\ [][LiveNext]_vars
    /\ \A c \in Callers : WF_vars(Resolved(c)) /\ SF_vars(Acquire(c))

\* One task calling in sequence, with every timeout up to MaxTimeout.
SeqCaller == "t1"

SeqNext ==
    \/ \E id \in Ids, t \in Timeouts : ensure_stdio(SeqCaller, id, t, MaxSeqCalls)
    \/ \E id \in Ids, t \in Timeouts : ensure_http(SeqCaller, id, t, MaxSeqCalls)
    \/ \E id \in Ids, t \in Timeouts : list_tools(SeqCaller, id, t, MaxSeqCalls)
    \/ \E id \in Ids, t \in Timeouts : call_tool(SeqCaller, id, t, MaxSeqCalls)
    \/ \E kind \in Kinds, t \in Timeouts, lt \in Timeouts,
          blank \in BOOLEAN, built \in BOOLEAN :
          check_server(SeqCaller, kind, t, lt, blank, built, MaxSeqCalls)
    \/ ResolveIO

SeqSpec == Init /\ [][SeqNext]_vars

\* A child process exits on its own (crash, external kill).
ChildExits(conn) ==
    /\ conn \in DOMAIN children
    /\ children[conn] = "running"
    /\ children' = [children EXCEPT ![conn] = "exited"]
    /\ lastSend' = NoSent
    /\ lastCall' = NoReturn
    /\ UNCHANGED <<sessions, lock, pc, call, local, snd, stats, ncalls, inserts,
                   calc, pipe, mlx, mlc>>

\* One task calling in sequence, its sessions established from config
\* rows, while the peers' processes may exit; every timeout one tick.
AppNext ==
    \/ \E id \in Ids : ensure_mcp_session(SeqCaller, id, MaxAppCalls)
    \/ \E res \in FetchOutcomes \ {"row"} : Fetched(SeqCaller, res, NoRow, 1)
    \/ \E row \in Rows : Fetched(SeqCaller, "row", row, 1)
    \/ \E kind \in Kinds, blank \in BOOLEAN, built \in BOOLEAN :
          check_server(SeqCaller, kind, 1, 1, blank, built, MaxAppCalls)
    \/ \E id \in Ids, op \in UseOps, row \in ConnectableRows \cup {NoRow} :
          Command(SeqCaller, op, id, row, 1, MaxAppCalls)
    \/ \E conn \in 1..MaxAppCalls : ChildExits(conn)
    \/ ResolveIO

AppSpec == Init /\ [][AppNext]_vars

\* ------------------------------------------------ result post-processing
\* Strings are sequences of characters; NL is the newline.
NL == "\n"
Texts == {<<>>, <<"a">>, <<"b">>}

\* Sequences over S of length at most n.
SeqsUpTo(S, n) == UNION {[1..k -> S] : k \in 0..n}

\* A content block: `type` is "text", another string ("image") or not a
\* string at all ("none"); `text` is a string (hasText) or is not.
Blocks ==
    {b \in [type : {"text", "image", "none"}, hasText : BOOLEAN, text : Texts] :
        ~b.hasText => b.text = <<>>}

\* The `content` member of a tools/call result: absent, a string, an array
\* of blocks, or anything else.
ContentValues ==
    {[t |-> "missing", s |-> <<>>, items |-> <<>>],
     [t |-> "other", s |-> <<>>, items |-> <<>>]}
    \cup {[t |-> "string", s |-> x, items |-> <<>>] : x \in Texts}
    \cup {[t |-> "array", s |-> <<>>, items |-> bs] : bs \in SeqsUpTo(Blocks, MaxBlocks)}

\* call_tool: `item.get("type")` is "text" and `item.get("text")` is a string
IsTextBlock(item) == item.type = "text" /\ item.hasText

\* call_tool: the loop over the content array, `out` being the String built
\* so far: `if !out.is_empty() { out.push_str("\n") }; out.push_str(txt)`
RECURSIVE ConcatText(_, _)
ConcatText(items, out) ==
    IF items = <<>> THEN out
    ELSE LET item == Head(items) IN
         ConcatText(Tail(items),
                    IF IsTextBlock(item)
                    THEN (IF out # <<>> THEN out \o <<NL>> ELSE out) \o item.text
                    ELSE out)

\* call_tool: `match result.get("content")`
ExtractContent(content) ==
    CASE content.t = "string" -> content.s
      [] content.t = "array" -> ConcatText(content.items, <<>>)
      [] OTHER -> <<>>

\* An entry of a `tools` array: name absent, not a string, or a string;
\* description absent or a string; each schema spelling absent, an object
\* or a value that is no object; and, when both spellings are there, the
\* one that comes first in the document.
AllToolEntries ==
    {e \in [name : {"missing", "number", "a", "b"}, description : {"missing", "d"},
            inputSchema : {"missing", "obj1", "str"},
            input_schema : {"missing", "obj2", "str"},
            first : {"inputSchema", "input_schema"}] :
        e.first = "input_schema" =>
           (e.inputSchema # "missing" /\ e.input_schema # "missing")}

\* The entries that arrays of every length are built from.  (The
\* description is parsed on its own, so it is varied on the entries without
\* schema members only; the order of the members is varied on arrays of one
\* entry only.)
ToolEntries ==
    {e \in AllToolEntries :
        /\ e.first = "inputSchema"
        /\ e.description = "d" =>
              (e.inputSchema = "missing" /\ e.input_schema = "missing")}

\* serde_json::Value::Null
Null == [t |-> "null", items |-> <<>>]

\* A result value, by its `tools` member: the value is null, or an object
\* whose `tools` member is absent, an array, or anything else.
ToolsValues ==
    {Null, [t |-> "missing", items |-> <<>>], [t |-> "other", items |-> <<>>]}
    \cup {[t |-> "array", items |-> ts] : ts \in SeqsUpTo(ToolEntries, MaxTools)}
    \cup {[t |-> "array", items |-> <<e>>] : e \in AllToolEntries}

\* (as if any `name` member counted, string or not)
HasNameAny(tool) == tool.name # "missing"

\* parse_tools_array: `tool.get("name").and_then(|n| n.as_str())` is Some
HasName(tool) == tool.name \notin {"missing", "number"}

IsObject(v) == v \in {"obj1", "obj2"}

\* (as if the spelling that comes first in the document were taken)
SchemaValByOrder(tool) ==
    CASE tool.inputSchema = "missing" -> tool.input_schema
      [] tool.input_schema = "missing" -> tool.inputSchema
      [] OTHER -> IF tool.first = "inputSchema" THEN tool.inputSchema
                  ELSE tool.input_schema

\* parse_tools_array: `.get("inputSchema").cloned().or_else(|| .get("input_schema"))`
SchemaVal(tool) ==
    IF tool.inputSchema # "missing" THEN tool.inputSchema ELSE tool.input_schema

\* parse_tools_array: the McpToolInfo pushed for a named entry
ToolInfo(tool) ==
    [name |-> tool.name,
     description |-> IF tool.description = "missing" THEN "none" ELSE tool.description,
     input_schema |-> IF IsObject(SchemaVal(tool)) THEN SchemaVal(tool) ELSE "none"]

\* parse_tools_array: the loop, with `continue` for an entry without a name
RECURSIVE ParseLoop(_, _)
ParseLoop(tools, out) ==
    IF tools = <<>> THEN out
    ELSE IF ~HasName(Head(tools)) THEN ParseLoop(Tail(tools), out)
    ELSE ParseLoop(Tail(tools), Append(out, ToolInfo(Head(tools))))

\* parse_tools_array: `.get("tools").and_then(|t| t.as_array())` or empty
parse_tools_array(tools) ==
    ParseLoop(IF tools.t = "array" THEN tools.items ELSE <<>>, <<>>)

\* fn is about to post-process arg.
Pending(fn, arg) == [NoCalc EXCEPT !.fn = fn, !.arg = arg]

\* (as if a result without a `tools` array were refused)
ListToolsStrict(result) ==
    [ok |-> result.t = "array", tools |-> parse_tools_array(result)]

\* McpManager::list_tools after its send: `Ok(parse_tools_array(&result))`
ListToolsReturn(result) == [ok |-> TRUE, tools |-> parse_tools_array(result)]

Unparsed(fn) == calc.fn = fn /\ ~calc.done

\* call_tool after its send: the content is extracted and returned.
ContentExtracted ==
    /\ Unparsed("call_tool")
    /\ calc' = [calc EXCEPT !.done = TRUE, !.out = ExtractContent(calc.arg),
                            !.ok = TRUE]
    /\ UNCHANGED <<sessions, lock, pc, call, local, snd, stats, children, ncalls,
                   inserts, lastSend, lastCall, pipe, mlx,
                   mlc>>

\* list_tools (and check_server) after the send: the tools are parsed.
ToolsParsed ==
    /\ Unparsed("list_tools")
    /\ calc' = [calc EXCEPT !.done = TRUE,
                            !.out = ListToolsReturn(calc.arg).tools,
                            !.ok = ListToolsReturn(calc.arg).ok]
    /\ UNCHANGED <<sessions, lock, pc, call, local, snd, stats, children, ncalls,
                   inserts, lastSend, lastCall, pipe, mlx,
                   mlc>>

\* ------------------------------------------------ replies and their decoding
\* Option<T>
None == <<>>
Some(x) == <<x>>

\* A text is a sequence of parts: literal pieces, numbers and bodies written
\* out by format! / to_string.
Lit(str) == [lit |-> str]
Num(n) == [num |-> n]

\* The `error` member of a response: absent, null, or an object whose
\* `message` is absent, a number or a string and that may hold a `code`.
ErrorValues ==
    {e \in [t : {"missing", "null", "object"},
            message : {"missing", "number", "boom"},
            code : {"missing", "-32000"}] :
        e.t # "object" => (e.message = "missing" /\ e.code = "missing")}
NoError == [t |-> "missing", message |-> "missing", code |-> "missing"]

\* A `result` member that is not there.
NoMember == [t |-> "absent", items |-> <<>>]

\* The result values of the replies to the probe.
ProbeValues ==
    {Null, [t |-> "missing", items |-> <<>>], [t |-> "other", items |-> <<>>]}
    \cup {[t |-> "array", items |-> ts] : ts \in SeqsUpTo(ToolEntries, MaxProbeTools)}

\* A decoded response object, by its `error` and `result` members.  (With
\* an `error` member the result is absent, null or an object.)
Responses ==
    {[error |-> e, result |-> r] :
        e \in ErrorValues \ {NoError},
        r \in {NoMember, Null, [t |-> "missing", items |-> <<>>]}}
    \cup {[error |-> NoError, result |-> r] : r \in {NoMember} \cup ProbeValues}
NoDoc == [error |-> NoError, result |-> NoMember]

\* What comes back for a request.  stdio: the buffer after read_line, which
\* is empty (the stream ended), a text that is no JSON document (a
\* truncated line as well) or a document.  http: a status and a body, the
\* body being one of the same three.
Statuses == {200, 299, 300, 500}
RepliesOf(kind, docs) ==
    {[status |-> st, t |-> t, doc |-> NoDoc] :
        st \in (IF kind = "http" THEN Statuses ELSE {0}), t \in {"empty", "text"}}
    \cup {[status |-> st, t |-> "json", doc |-> d] :
            st \in (IF kind = "http" THEN Statuses ELSE {0}), d \in docs}
Replies(kind) == RepliesOf(kind, Responses)

\* The replies to initialize, whose result nothing reads: it is absent, null
\* or an object.
InitializeReplies(kind) ==
    RepliesOf(kind, {d \in Responses : d.result.t \in {"absent", "null", "missing"}})

\* The body text of a reply, as a part of a text.
Body(reply) == [body |-> [t |-> reply.t, doc |-> reply.doc]]

\* Result<serde_json::Value, String> of send
SendOk(v) == [ok |-> TRUE, err |-> <<>>, value |-> v]
SendErr(text) == [ok |-> FALSE, err |-> text, value |-> NoMember]

IsString(m) == m \notin {"missing", "number"}

\* (as if a `result` member counted before the `error` member)
ExtractResultFirst(v) ==
    IF v.result # NoMember THEN SendOk(v.result)
    ELSE IF v.error.t # "missing"
    THEN SendErr(<<Lit(IF IsString(v.error.message) THEN v.error.message
                       ELSE "rpc error")>>)
    ELSE SendOk(Null)

\* (as if a response with neither member were refused)
ExtractStrict(v) ==
    IF v.error.t # "missing"
    THEN SendErr(<<Lit(IF IsString(v.error.message) THEN v.error.message
                       ELSE "rpc error")>>)
    ELSE IF v.result = NoMember THEN SendErr(<<Lit("rpc error")>>)
    ELSE SendOk(v.result)

\* The tail of both sends (and rpc.rs): `if let Some(err) = v.get("error")`
\* fails with the message or "rpc error"; otherwise
\* `v.get("result").cloned().unwrap_or(Value::Null)`.
extract_mcp_result_or_error(v) ==
    IF v.error.t # "missing"
    THEN SendErr(<<Lit(IF IsString(v.error.message) THEN v.error.message
                       ELSE "rpc error")>>)
    ELSE SendOk(IF v.result = NoMember THEN Null ELSE v.result)

\* (as if an empty buffer were taken for a response without members)
StdioDecodeLenient(reply) ==
    CASE reply.t = "empty" -> extract_mcp_result_or_error(NoDoc)
      [] reply.t = "text" -> SendErr(<<Lit("expected value")>>)
      [] OTHER -> extract_mcp_result_or_error(reply.doc)

\* StdioSession::send after read_line: `serde_json::from_str(&buf)
\* .map_err(|e| e.to_string())?` and the tail.
StdioDecode(reply) ==
    CASE reply.t = "empty" -> SendErr(<<Lit("EOF while parsing a value")>>)
      [] reply.t = "text" -> SendErr(<<Lit("expected value")>>)
      [] OTHER -> extract_mcp_result_or_error(reply.doc)

\* StatusCode::is_success
IsSuccess(status) == status \in 200..299

\* (as if only the server errors, 5xx, were failures)
HttpDecodeServerErrors(reply) ==
    CASE reply.status >= 500 ->
           SendErr(<<Lit("HTTP "), Num(reply.status), Lit(": "), Body(reply)>>)
      [] reply.status < 500 /\ reply.t # "json" -> SendErr(<<Body(reply)>>)
      [] OTHER -> extract_mcp_result_or_error(reply.doc)

\* HttpSession::send after resp.text(): the status check with
\* `format!("HTTP {}: {}", status.as_u16(), body_text)`, then
\* `from_str(&body_text).map_err(|_e| body_text.clone())?` and the tail.
HttpDecode(reply) ==
    CASE ~IsSuccess(reply.status) ->
           SendErr(<<Lit("HTTP "), Num(reply.status), Lit(": "), Body(reply)>>)
      [] IsSuccess(reply.status) /\ reply.t # "json" -> SendErr(<<Body(reply)>>)
      [] OTHER -> extract_mcp_result_or_error(reply.doc)

\* McpTransport::send from the arrival of the reply
SendDecode(kind, reply) ==
    IF kind = "stdio" THEN StdioDecode(reply) ELSE HttpDecode(reply)

\* send has its reply: it decodes it and returns.
SendDecoded ==
    /\ Unparsed("send")
    /\ calc' = [calc EXCEPT !.done = TRUE,
                            !.out = SendDecode(calc.arg.kind, calc.arg.reply),
                            !.ok = SendDecode(calc.arg.kind, calc.arg.reply).ok]
    /\ UNCHANGED <<sessions, lock, pc, call, local, snd, stats, children, ncalls,
                   inserts, lastSend, lastCall, pipe, mlx,
                   mlc>>

\* McpCheckResult
McpCheckResult(ok, tools_count, tools, error) ==
    [ok |-> ok, tools_count |-> tools_count, tools |-> tools, warning |-> None,
     error |-> error]

\* check_server: the `Err(e)` arm of the constructor (a failed initialize)
CheckConnectFailed(e) == McpCheckResult(FALSE, None, None, Some(e))

\* (as if tools_count counted the entries of the array, named or not)
CheckToolsRawCount(kind, res) ==
    IF res.ok
    THEN LET tools == parse_tools_array(res.value) IN
         McpCheckResult(TRUE, Some(Len(res.value.items)), Some(tools), None)
    ELSE McpCheckResult(FALSE, None, None,
                        Some(IF kind = "stdio"
                             THEN <<Lit("Failed to request tools/list")>>
                             ELSE <<Lit("Failed HTTP tools/list: ")>> \o res.err))

\* check_server: `match tools_res` and the result built after it
CheckTools(kind, res) ==
    IF res.ok
    THEN LET tools == parse_tools_array(res.value) IN
         McpCheckResult(TRUE, Some(Len(tools)), Some(tools), None)
    ELSE McpCheckResult(FALSE, None, None,
                        Some(IF kind = "stdio"
                             THEN <<Lit("Failed to request tools/list")>>
                             ELSE <<Lit("Failed HTTP tools/list: ")>> \o res.err))

\* What check_server is given and meets before its first send: the command
\* (stdio; empty, blank or naming a program) and how the spawn or the
\* client build goes.
CheckCommands == {<<>>, <<" ">>, <<" ", " ">>, <<"a">>, <<" ", "a">>}
CheckStarts ==
    {[kind |-> "stdio", command |-> cmd, begin |-> b] :
        cmd \in CheckCommands, b \in SpawnOutcomes}
    \cup {[kind |-> "http", command |-> <<>>, begin |-> b] : b \in {"ok", "error"}}

\* `command.trim().is_empty()`
IsBlank(command) == \A i \in 1..Len(command) : command[i] = " "

\* The error of a constructor that does not get as far as its send.
StartError(kind, begin) ==
    IF kind = "http" THEN <<Lit("builder error")>>
    ELSE IF begin = "timeout" THEN <<Lit("spawn timeout")>>
    ELSE <<Lit("spawn error: "), Lit("os error")>>

\* check_server is given a blank command and returns at once.
CheckCommandEmpty ==
    LET a == calc.arg IN
    /\ Unparsed("check_start")
    /\ a.kind = "stdio" /\ IsBlank(a.command)
    /\ calc' = [calc EXCEPT
                   !.done = TRUE,
                   !.out = McpCheckResult(FALSE, None, None,
                                          Some(<<Lit("Command cannot be empty")>>))]
    /\ UNCHANGED <<sessions, lock, pc, call, local, snd, stats, children, ncalls,
                   inserts, lastSend, lastCall, pipe, mlx,
                   mlc>>

\* The spawn or the client build fails: the constructor's error is handed
\* back as the result.
CheckNotStarted ==
    LET a == calc.arg IN
    /\ Unparsed("check_start")
    /\ ~(a.kind = "stdio" /\ IsBlank(a.command))
    /\ a.begin # "ok"
    /\ calc' = [calc EXCEPT
                   !.done = TRUE,
                   !.out = CheckConnectFailed(StartError(a.kind, a.begin))]
    /\ UNCHANGED <<sessions, lock, pc, call, local, snd, stats, children, ncalls,
                   inserts, lastSend, lastCall, pipe, mlx,
                   mlc>>

\* The session is built and initialize is sent, to which some reply comes
\* back.
CheckStarted ==
    LET a == calc.arg IN
    /\ Unparsed("check_start")
    /\ ~(a.kind = "stdio" /\ IsBlank(a.command))
    /\ a.begin = "ok"
    /\ \E r \in InitializeReplies(a.kind) :
          calc' = Pending("check_server",
                          [kind |-> a.kind, method |-> MCP_METHOD_INITIALIZE,
                           reply |-> r])
    /\ UNCHANGED <<sessions, lock, pc, call, local, snd, stats, children, ncalls,
                   inserts, lastSend, lastCall, pipe, mlx,
                   mlc>>

\* The probe's initialize send has its reply, a failure, which is handed
\* back as the result.
CheckConnectRefused ==
    LET a == calc.arg
        res == SendDecode(a.kind, a.reply)
    IN
    /\ Unparsed("check_server")
    /\ a.method = MCP_METHOD_INITIALIZE
    /\ ~InitAccepted(res)
    /\ calc' = [calc EXCEPT !.done = TRUE, !.out = CheckConnectFailed(res.err),
                            !.ok = CheckConnectFailed(res.err).ok]
    /\ UNCHANGED <<sessions, lock, pc, call, local, snd, stats, children, ncalls,
                   inserts, lastSend, lastCall, pipe, mlx,
                   mlc>>

\* The probe's initialize send has its reply, a success: tools/list is
\* sent, to which some reply `next` comes back.
CheckInitialized ==
    LET a == calc.arg
        res == SendDecode(a.kind, a.reply)
    IN
    /\ Unparsed("check_server")
    /\ a.method = MCP_METHOD_INITIALIZE
    /\ InitAccepted(res)
    /\ \E next \in Replies(a.kind) :
          calc' = [calc EXCEPT !.arg = [a EXCEPT !.method = MCP_METHOD_TOOLS_LIST,
                                                !.reply = next]]
    /\ UNCHANGED <<sessions, lock, pc, call, local, snd, stats, children, ncalls,
                   inserts, lastSend, lastCall, pipe, mlx,
                   mlc>>

\* The probe's tools/list send has its reply: the result is built.
CheckListed ==
    LET a == calc.arg
        res == SendDecode(a.kind, a.reply)
    IN
    /\ Unparsed("check_server")
    /\ a.method = MCP_METHOD_TOOLS_LIST
    /\ calc' = [calc EXCEPT !.done = TRUE, !.out = CheckTools(a.kind, res),
                            !.ok = CheckTools(a.kind, res).ok]
    /\ UNCHANGED <<sessions, lock, pc, call, local, snd, stats, children, ncalls,
                   inserts, lastSend, lastCall, pipe, mlx,
                   mlc>>

\* ------------------------------------------------ the shell command line
\* Strings are sequences of characters: the single quote, the space, the
\* backslash, the double quote, the dollar sign and a letter.
Chars == {"'", " ", "\\", "\"", "$", "a"}

\* The arguments of the composed command lines: the empty string, each
\* character by itself, and strings with quotes at their ends.
ArgSamples ==
    {<<>>} \cup {<<ch>> : ch \in Chars}
    \cup {<<"'", "'">>, <<"a", "'", " ", "a">>, <<"\\", "'">>}

\* The commands: the argument samples, a path, and a name with a quote.
Commands == ArgSamples \cup {<<"/", "a">>, <<"a", "'">>}

\* (as if an embedded quote were escaped by a backslash within the quotes)
EscapeCharBackslash(ch) == IF ch = "'" THEN <<"\\", "'">> ELSE <<ch>>

\* sh_escape: the body of the loop, `'` becoming `'\''`
EscapeChar(ch) == IF ch = "'" THEN <<"'", "\\", "'", "'">> ELSE <<ch>>

RECURSIVE EscapeChars(_)
EscapeChars(arg) ==
    IF arg = <<>> THEN <<>>
    ELSE EscapeChar(Head(arg)) \o EscapeChars(Tail(arg))

\* sh_escape
sh_escape(arg) == <<"'">> \o EscapeChars(arg) \o <<"'">>

\* is_bare_command (target_family = "unix")
is_bare_command(command) == \A i \in 1..Len(command) : command[i] # "/"

\* build_stdio_command: the loop `composed.push(' '); composed.push_str(..)`
RECURSIVE ComposeArgs(_)
ComposeArgs(args) ==
    IF args = <<>> THEN <<>>
    ELSE <<" ">> \o sh_escape(Head(args)) \o ComposeArgs(Tail(args))

\* build_stdio_command: the Command built, which runs the login shell on
\* the composed line (`-lc`) for a bare command and the program itself
\* otherwise.
build_stdio_command(command, args) ==
    IF is_bare_command(command)
    THEN [shell |-> TRUE, program |-> <<>>, args |-> <<>>,
          composed |-> sh_escape(command) \o ComposeArgs(args)]
    ELSE [shell |-> FALSE, program |-> command, args |-> args, composed |-> <<>>]

\* An argument is escaped.
Escaped ==
    /\ Unparsed("sh_escape")
    /\ calc' = [calc EXCEPT !.done = TRUE, !.out = sh_escape(calc.arg), !.ok = TRUE]
    /\ UNCHANGED <<sessions, lock, pc, call, local, snd, stats, children, ncalls,
                   inserts, lastSend, lastCall, pipe, mlx,
                   mlc>>

\* The command of a stdio session is built.
CommandBuilt ==
    /\ Unparsed("build_stdio_command")
    /\ calc' = [calc EXCEPT !.done = TRUE,
                            !.out = build_stdio_command(calc.arg.command,
                                                        calc.arg.args),
                            !.ok = TRUE]
    /\ UNCHANGED <<sessions, lock, pc, call, local, snd, stats, children, ncalls,
                   inserts, lastSend, lastCall, pipe, mlx,
                   mlc>>

\* ------------------------------------------------ timeouts and headers
MCP_DEFAULT_CONNECT_TIMEOUT_MS == 5000
LIST_TOOLS_TIMEOUT_MS == 5000
TOOL_CALL_TIMEOUT_MS == 20000

\* DbMcpServer::connect_timeout_ms, an Option<i64>: NULL, the values around
\* zero and the values around the default.
ConnectTimeouts ==
    {None} \cup {Some(n) : n \in (-MaxRowMs)..MaxRowMs}
    \cup {Some(n) : n \in {MCP_DEFAULT_CONNECT_TIMEOUT_MS - 1,
                            MCP_DEFAULT_CONNECT_TIMEOUT_MS,
                            MCP_DEFAULT_CONNECT_TIMEOUT_MS + 1}}

\* (as if zero were taken for a missing value too)
NormalizePositive(value) ==
    IF value # None /\ value[1] > 0 THEN value[1]
    ELSE MCP_DEFAULT_CONNECT_TIMEOUT_MS

\* normalize_connect_timeout: `.and_then(|v| if v < 0 { None } else
\* { Some(v as u64) }).unwrap_or(MCP_DEFAULT_CONNECT_TIMEOUT_MS)`
normalize_connect_timeout(value) ==
    IF value # None /\ ~(value[1] < 0) THEN value[1]
    ELSE MCP_DEFAULT_CONNECT_TIMEOUT_MS

\* ensure_mcp_session: the connect timeout of the fetched row is normalised.
ConnectTimeoutNormalized ==
    /\ Unparsed("normalize_connect_timeout")
    /\ calc' = [calc EXCEPT !.done = TRUE,
                            !.out = normalize_connect_timeout(calc.arg),
                            !.ok = TRUE]
    /\ UNCHANGED <<sessions, lock, pc, call, local, snd, stats, children, ncalls,
                   inserts, lastSend, lastCall, pipe, mlx,
                   mlc>>

\* The commands mcp_list_tools and mcp_call_tool: the manager call each
\* makes for the id it is given.
mcp_list_tools(id) ==
    [op |-> "list_tools", id |-> id, timeout_ms |-> LIST_TOOLS_TIMEOUT_MS]
mcp_call_tool(id) ==
    [op |-> "call_tool", id |-> id, timeout_ms |-> TOOL_CALL_TIMEOUT_MS]

\* A command is invoked and calls the manager.
CommandInvoked ==
    /\ Unparsed("mcp_list_tools") \/ Unparsed("mcp_call_tool")
    /\ calc' = [calc EXCEPT !.done = TRUE,
                            !.out = IF calc.fn = "mcp_list_tools"
                                    THEN mcp_list_tools(calc.arg)
                                    ELSE mcp_call_tool(calc.arg),
                            !.ok = TRUE]
    /\ UNCHANGED <<sessions, lock, pc, call, local, snd, stats, children, ncalls,
                   inserts, lastSend, lastCall, pipe, mlx,
                   mlc>>

\* A headers value: an object, i.e. a function from the names of its
\* entries to their values, or a value that is no object.
HeaderNames == {"Authorization", "Accept"}
HeaderObjects ==
    UNION {[names -> {"old", "x"}] : names \in SUBSET HeaderNames}
HeaderValues ==
    {[t |-> "object", entries |-> es] : es \in HeaderObjects}
    \cup {[t |-> "string", entries |-> <<>>], [t |-> "null", entries |-> <<>>]}
AuthTokens == {"tok", "tok2"}

\* merge_auth_header
merge_auth_header(headers, auth) ==
    CASE auth = None -> headers
      [] auth # None /\ headers = None ->
           Some([t |-> "object", entries |-> ("Authorization" :> auth[1])])
      [] OTHER ->
           IF headers[1].t = "object"
              /\ "Authorization" \notin DOMAIN headers[1].entries
           THEN Some([headers[1] EXCEPT
                        !.entries = @ @@ ("Authorization" :> auth[1])])
           ELSE headers

\* The headers and the token are merged.
AuthMerged ==
    /\ Unparsed("merge_auth_header")
    /\ calc' = [calc EXCEPT !.done = TRUE,
                            !.out = merge_auth_header(calc.arg.headers,
                                                      calc.arg.auth),
                            !.ok = TRUE]
    /\ UNCHANGED <<sessions, lock, pc, call, local, snd, stats, children, ncalls,
                   inserts, lastSend, lastCall, pipe, mlx,
                   mlc>>

\* A reply or a result value has arrived and is still to be processed.
ParseInit ==
    /\ Engine
    /\ Others
    /\ \/ \E v \in ContentValues : calc = Pending("call_tool", v)
       \/ \E v \in ToolsValues : calc = Pending("list_tools", v)
       \/ \E a \in SeqsUpTo(Chars, MaxArgLen) : calc = Pending("sh_escape", a)
       \/ \E cmd \in Commands, as \in SeqsUpTo(ArgSamples, MaxArgs) :
             calc = Pending("build_stdio_command", [command |-> cmd, args |-> as])
       \/ \E v \in ConnectTimeouts : calc = Pending("normalize_connect_timeout", v)
       \/ \E fn \in {"mcp_list_tools", "mcp_call_tool"}, id \in Ids :
             calc = Pending(fn, id)
       \/ \E h \in {None} \cup {Some(v) : v \in HeaderValues},
             a \in {None} \cup {Some(tok) : tok \in AuthTokens} :
             calc = Pending("merge_auth_header", [headers |-> h, auth |-> a])
       \/ \E k \in Kinds : \E r \in Replies(k) :
             calc = Pending("send", [kind |-> k, reply |-> r])
       \/ \E a \in CheckStarts : calc = Pending("check_start", a)

ParseNext ==
    \/ ContentExtracted
    \/ ToolsParsed
    \/ SendDecoded
    \/ CheckCommandEmpty
    \/ CheckNotStarted
    \/ CheckStarted
    \/ CheckConnectRefused
    \/ CheckInitialized
    \/ CheckListed
    \/ Escaped
    \/ CommandBuilt
    \/ ConnectTimeoutNormalized
    \/ CommandInvoked
    \/ AuthMerged

ParseSpec == ParseInit /\ [][ParseNext]_vars

\* ------------------------------------------------ the pipes of a session
\* One StdioSession and its child, by what the two pipes carry.  A
\* serialized request is the text `{n}` of its id n, and a response is
\* named by the id it answers.
Serialized(n) == <<Lit("{"), Num(n), Lit("}")>>

\* `line.push('\n')`: the line send writes for request n
Line(n) == Serialized(n) \o <<Lit(NL)>>

\* StdioSession::new, and the pipes right after the spawn.  next_id: the
\* counter; ready: initialize has returned success (the session is cached);
\* req / towrite: the request of the send in progress and its line; stdin:
\* every byte delivered to the child; taken: how many of them the child has
\* read; stdout: the responses the child has written and nobody has read;
\* last: the request and the response of the send that returned last.
NewPipe ==
    [pc |-> "idle", next_id |-> 0, ready |-> FALSE, req |-> 0, towrite |-> <<>>,
     stdin |-> <<>>, taken |-> 0, stdout |-> <<>>, nsends |-> 0,
     last |-> [req |-> 0, resp |-> 0, res |-> "none"]]

\* A send returns: with a failure of initialize the session is dropped.
PipeReturn(p, res, resp) ==
    [p EXCEPT !.pc = IF p.ready \/ res = "ok" THEN "idle" ELSE "dropped",
              !.ready = p.ready \/ res = "ok",
              !.last = [req |-> p.req, resp |-> resp, res |-> res],
              !.req = 0, !.towrite = <<>>]

\* StdioSession::send up to the write: the counter is bumped and the
\* request is serialized.  (The first send is the constructor's
\* initialize; the later ones are list_tools / call_tool on the cached
\* session, one at a time under the manager's mutex.)
PipeSend ==
    /\ pipe.pc = "idle"
    /\ pipe.nsends < MaxPipeSends
    /\ LET n == SaturatingAdd(pipe.next_id, 1) IN
       pipe' = [pipe EXCEPT !.pc = "write", !.next_id = n, !.req = n,
                            !.towrite = Line(n), !.nsends = @ + 1]
    /\ UNCHANGED <<sessions, lock, pc, call, local, snd, stats, children, ncalls,
                   inserts, lastSend, lastCall, calc, mlx, mlc>>

\* `timeout(timeout_ms, self.stdin.write_all(line))` resolves: write_all has
\* passed the first k bytes of the line to the pipe, all of them when it
\* completes and fewer when the deadline cuts it short (the future is
\* dropped between two writes).
StdinWritten(k) ==
    /\ pipe.pc = "write"
    /\ k \in 0..Len(pipe.towrite)
    /\ LET p == [pipe EXCEPT !.stdin = @ \o SubSeq(pipe.towrite, 1, k)] IN
       pipe' = IF k = Len(pipe.towrite)
               THEN [p EXCEPT !.pc = "read", !.towrite = <<>>]
               ELSE PipeReturn(p, "write timeout", 0)
    /\ UNCHANGED <<sessions, lock, pc, call, local, snd, stats, children, ncalls,
                   inserts, lastSend, lastCall, calc, mlx, mlc>>

\* The bytes the child has not read yet, and the first line among them.
Unread(p) == SubSeq(p.stdin, p.taken + 1, Len(p.stdin))
LineEnd(s) == CHOOSE i \in 1..Len(s) : s[i] = Lit(NL) /\ \A j \in 1..(i - 1) : s[j] # Lit(NL)
HasLine(s) == \E i \in 1..Len(s) : s[i] = Lit(NL)

\* The child reads the next line of its input and, when the line is one
\* request, writes the response to it; a line that is no request is
\* skipped.  (A server may take any time to do so, or never do it.)
ServerAnswers ==
    /\ pipe.pc \in {"idle", "write", "read"}
    /\ HasLine(Unread(pipe))
    /\ LET s == Unread(pipe)
           e == LineEnd(s)
           doc == SubSeq(s, 1, e - 1)
           ids == {n \in 1..U64_MAX : doc = Serialized(n)}
       IN
       pipe' = [pipe EXCEPT !.taken = @ + e,
                            !.stdout = IF ids = {} THEN @
                                       ELSE Append(@, CHOOSE n \in ids : TRUE)]
    /\ UNCHANGED <<sessions, lock, pc, call, local, snd, stats, children, ncalls,
                   inserts, lastSend, lastCall, calc, mlx, mlc>>

\* `timeout(timeout_ms, self.reader.read_line(&mut buf))` resolves with a
\* line: the first response the child has written and no send has read;
\* it is decoded and its result returned.
LineRead ==
    /\ pipe.pc = "read"
    /\ pipe.stdout # <<>>
    /\ pipe' = [PipeReturn(pipe, "ok", Head(pipe.stdout)) EXCEPT
                   !.stdout = Tail(pipe.stdout)]
    /\ UNCHANGED <<sessions, lock, pc, call, local, snd, stats, children, ncalls,
                   inserts, lastSend, lastCall, calc, mlx, mlc>>

\* The read deadline passes with nothing to read.
ReadTimedOut ==
    /\ pipe.pc = "read"
    /\ pipe.stdout = <<>>
    /\ pipe' = PipeReturn(pipe, "read timeout", 0)
    /\ UNCHANGED <<sessions, lock, pc, call, local, snd, stats, children, ncalls,
                   inserts, lastSend, lastCall, calc, mlx, mlc>>

PipeInit == Engine /\ calc = NoCalc /\ pipe = NewPipe /\ mlx = NoMlx /\ mlc = NoMlc

PipeNext ==
    \/ PipeSend
    \/ \E k \in 0..Len(Line(1)) : StdinWritten(k)
    \/ ServerAnswers
    \/ LineRead
    \/ ReadTimedOut

PipeSpec == PipeInit /\ [][PipeNext]_vars

\* ------------------------------------------------ the MLX server manager
\* MLXServerManager::new.  lock: the owner of the process_handle mutex;
\* handle: the process in the Option<ProcessHandle> (0: None); procs: the
\* processes spawned so far; status: MLXServerStatus by its two flags;
\* op / at: the call each task runs and the suspension point it is at.
NewMlx ==
    [lock |-> NoOne, handle |-> 0, procs |-> <<>>,
     status |-> [is_running |-> FALSE, is_ready |-> FALSE],
     op |-> [c \in Callers |-> "none"], at |-> [c \in Callers |-> "idle"],
     res |-> [c \in Callers |-> "none"], ncalls |-> 0]

\* A call returns: its guard on process_handle goes out of scope.
MlxReturn(m, c, res) ==
    [m EXCEPT !.op[c] = "none", !.at[c] = "idle", !.res[c] = res,
              !.lock = IF m.lock = c THEN NoOne ELSE m.lock]

\* stop_server from the moment it owns the mutex: the handle is taken and
\* the process killed, and the status is set to stopped; when the kill
\* fails the `?` leaves before the status is touched.  Called from
\* start_server's Err arm, its result is dropped and start_server returns
\* the error of the wait.
StopLocked(m, c, killed) ==
    LET m1 == [m EXCEPT !.lock = c] IN
    LET m2 == IF m.handle = 0 THEN m1
              ELSE IF ~killed THEN [m1 EXCEPT !.handle = 0]
              ELSE [m1 EXCEPT !.handle = 0,
                              !.procs[m.handle] = "killed",
                              !.status = [is_running |-> FALSE, is_ready |-> FALSE]]
    IN
    MlxReturn(m2, c,
              IF m.op[c] = "start_server" THEN "not ready"
              ELSE IF m.handle # 0 /\ ~killed THEN "kill failed" ELSE "ok")

\* `self.process_handle.lock().await` of stop_server: it resolves at once
\* when the mutex is free and suspends the task otherwise, whoever the
\* owner is.
StopEnter(m, c, where, killed) ==
    IF m.lock = NoOne THEN StopLocked(m, c, killed)
    ELSE [m EXCEPT !.at[c] = where]

StartOutcomes == {"no port", "no app handle", "spawn error", "spawned"}

\* start_server from the moment it owns the mutex to its wait for the
\* server: the guard `handle_guard` is held across the wait.
StartLocked(m, c, outcome) ==
    LET m1 == [m EXCEPT !.lock = c] IN
    CASE m.handle # 0 -> MlxReturn(m1, c, "already running")
      [] m.handle = 0 /\ outcome # "spawned" -> MlxReturn(m1, c, outcome)
      [] OTHER ->
           [m1 EXCEPT !.procs = Append(@, "running"),
                      !.handle = Len(m.procs) + 1,
                      !.status = [is_running |-> TRUE, is_ready |-> FALSE],
                      !.at[c] = "wait"]

\* A task calls start_server (auto_start, restart) or stop_server.
MlxCall(c, op, outcome, killed) ==
    /\ mlx.at[c] = "idle"
    /\ mlx.ncalls < MaxMlxCalls
    /\ LET m == [mlx EXCEPT !.op[c] = op, !.res[c] = "none", !.ncalls = @ + 1] IN
       mlx' = IF op = "stop_server" THEN StopEnter(m, c, "lock", killed)
              ELSE IF m.lock = NoOne THEN StartLocked(m, c, outcome)
              ELSE [m EXCEPT !.at[c] = "lock"]
    /\ UNCHANGED <<sessions, lock, pc, call, local, snd, stats, children, ncalls,
                   inserts, lastSend, lastCall, calc, pipe, mlc>>

\* A task suspended on the mutex gets it.
MlxAcquire(c, outcome, killed) ==
    /\ mlx.at[c] \in {"lock", "stop_lock"}
    /\ mlx.lock = NoOne
    /\ mlx' = IF mlx.op[c] = "start_server" /\ mlx.at[c] = "lock"
              THEN StartLocked(mlx, c, outcome)
              ELSE StopLocked(mlx, c, killed)
    /\ UNCHANGED <<sessions, lock, pc, call, local, snd, stats, children, ncalls,
                   inserts, lastSend, lastCall, calc, pipe, mlc>>

\* wait_for_server_ready returns: Ok after a successful health check, Err
\* when the process has terminated or no check succeeded in all attempts;
\* on Err start_server calls stop_server, while it still holds the guard.
Waited(c, ready, killed) ==
    /\ mlx.at[c] = "wait"
    /\ ~ready \/ mlx.status.is_running
    /\ mlx' = IF ready
              THEN MlxReturn([mlx EXCEPT !.status.is_ready = TRUE], c, "ok")
              ELSE StopEnter(mlx, c, "stop_lock", killed)
    /\ UNCHANGED <<sessions, lock, pc, call, local, snd, stats, children, ncalls,
                   inserts, lastSend, lastCall, calc, pipe, mlc>>

\* The server process terminates on its own: the event listener sets the
\* status.
Terminated(p) ==
    /\ p \in DOMAIN mlx.procs
    /\ mlx.procs[p] = "running"
    /\ mlx' = [mlx EXCEPT !.procs[p] = "exited",
                          !.status = [is_running |-> FALSE, is_ready |-> FALSE]]
    /\ UNCHANGED <<sessions, lock, pc, call, local, snd, stats, children, ncalls,
                   inserts, lastSend, lastCall, calc, pipe, mlc>>

MlxInit == Engine /\ calc = NoCalc /\ pipe = NoPipe /\ mlx = NewMlx /\ mlc = NoMlc

\* What a task does once the suspension it is at resolves.
MlxProceeds(c) ==
    \/ \E outcome \in StartOutcomes, killed \in BOOLEAN : MlxAcquire(c, outcome, killed)
    \/ \E ready \in BOOLEAN, killed \in BOOLEAN : Waited(c, ready, killed)

MlxNext ==
    \/ \E c \in Callers, op \in {"start_server", "stop_server"},
          outcome \in StartOutcomes, killed \in BOOLEAN :
          MlxCall(c, op, outcome, killed)
    \/ \E c \in Callers : MlxProceeds(c)
    \/ \E p \in 1..MaxMlxCalls : Terminated(p)

\* The wait is bounded by its attempts and the mutex is fair.
MlxSpec ==
    /\ MlxInit
    /\ [][MlxNext]_vars
    /\ \A c \in Callers : WF_vars(MlxProceeds(c))

\* ------------------------------------------------ the MLC server manager
\* MLCServerStatus: port and pid name the process they belong to (0: None).
NoStatus ==
    [is_running |-> FALSE, is_http_ready |-> FALSE, port |-> 0, pid |-> 0,
     error |-> FALSE]

\* MLCServerManager::new.  childLock: the owner of the `child` mutex; slot:
\* the process in it (0: None); procs: the processes spawned so far;
\* status: what the `status` mutex guards; op / at: the call each task runs
\* and where it is; held: the process a call holds in a local; snap: the
\* status a stop has read; polls: the health-poll tasks spawned so far;
\* quiet: a stop has returned and no start has been called since.
NewMlc ==
    [childLock |-> NoOne, slot |-> 0, procs |-> <<>>, status |-> NoStatus,
     op |-> [c \in Callers |-> "none"], at |-> [c \in Callers |-> "idle"],
     held |-> [c \in Callers |-> 0], snap |-> [c \in Callers |-> NoStatus],
     polls |-> <<>>, ncalls |-> 0, quiet |-> FALSE]

\* start / stop return.
MlcReturn(m, c) ==
    [m EXCEPT !.op[c] = "none", !.at[c] = "idle", !.held[c] = 0,
              !.snap[c] = NoStatus,
              !.quiet = IF m.op[c] = "stop"
                        THEN \A d \in Callers \ {c} : m.op[d] # "start"
                        ELSE @]

\* stop, `if let Some(child) = maybe_child.take()`: with a child, SIGINT is
\* sent and the task sleeps for the grace period, the guard still held.
ChildTaken(m, c) ==
    IF m.slot # 0
    THEN [m EXCEPT !.childLock = c, !.held[c] = m.slot, !.slot = 0,
                   !.at[c] = "grace"]
    ELSE [m EXCEPT !.childLock = c, !.at[c] = "stop_read"]

\* stop, `self.child.lock().await`
StopBegins(m, c) ==
    IF m.childLock = NoOne THEN ChildTaken(m, c)
    ELSE [m EXCEPT !.at[c] = "stop_lock"]

\* start, "Save child handle": `*guard = Some(child)` under a guard of its
\* own block; what the slot held is dropped, which does not kill it.
ChildStored(m, c) ==
    [m EXCEPT !.slot = m.held[c], !.held[c] = 0, !.at[c] = "status"]

\* start, `self.child.lock().await` of that block
StoreBegins(m, c) ==
    IF m.childLock = NoOne THEN ChildStored(m, c)
    ELSE [m EXCEPT !.at[c] = "store_lock"]

\* A task calls start (restart is start) or stop; start first awaits
\* ensure_hf_model_cached.
MlcCall(c, op) ==
    /\ mlc.at[c] = "idle"
    /\ mlc.ncalls < MaxMlcCalls
    /\ LET m == [mlc EXCEPT !.op[c] = op, !.ncalls = @ + 1] IN
       mlc' = IF op = "stop" THEN StopBegins(m, c)
              ELSE [m EXCEPT !.at[c] = "cache", !.quiet = FALSE]
    /\ UNCHANGED <<sessions, lock, pc, call, local, snd, stats, children, ncalls,
                   inserts, lastSend, lastCall, calc, pipe, mlx>>

\* ensure_hf_model_cached returns: an error leaves start, otherwise start
\* calls stop ("Defensive stop of any existing process").
ModelCached(c, ok) ==
    /\ mlc.at[c] = "cache"
    /\ mlc' = IF ok THEN StopBegins(mlc, c) ELSE MlcReturn(mlc, c)
    /\ UNCHANGED <<sessions, lock, pc, call, local, snd, stats, children, ncalls,
                   inserts, lastSend, lastCall, calc, pipe, mlx>>

\* A task suspended on the `child` mutex gets it.
MlcAcquire(c) ==
    /\ mlc.at[c] \in {"stop_lock", "store_lock"}
    /\ mlc.childLock = NoOne
    /\ mlc' = IF mlc.at[c] = "stop_lock" THEN ChildTaken(mlc, c)
              ELSE ChildStored(mlc, c)
    /\ UNCHANGED <<sessions, lock, pc, call, local, snd, stats, children, ncalls,
                   inserts, lastSend, lastCall, calc, pipe, mlx>>

\* stop: the grace period is over and the child is killed.
GraceOver(c) ==
    /\ mlc.at[c] = "grace"
    /\ mlc' = [mlc EXCEPT !.procs[mlc.held[c]] = "killed", !.held[c] = 0,
                          !.at[c] = "stop_read"]
    /\ UNCHANGED <<sessions, lock, pc, call, local, snd, stats, children, ncalls,
                   inserts, lastSend, lastCall, calc, pipe, mlx>>

\* stop: `let mut status = self.status.lock().await.clone();`
StatusRead(c) ==
    /\ mlc.at[c] = "stop_read"
    /\ mlc' = [mlc EXCEPT !.snap[c] = mlc.status, !.at[c] = "stop_write"]
    /\ UNCHANGED <<sessions, lock, pc, call, local, snd, stats, children, ncalls,
                   inserts, lastSend, lastCall, calc, pipe, mlx>>

\* stop: update_status_and_emit of the copy with is_running, is_http_ready
\* and pid reset, and the return, which drops the guard on `child`; start
\* goes on to look for a port and to spawn the sidecar.
StatusStopped(c) ==
    /\ mlc.at[c] = "stop_write"
    /\ LET m == [mlc EXCEPT !.status = [mlc.snap[c] EXCEPT !.is_running = FALSE,
                                                           !.is_http_ready = FALSE,
                                                           !.pid = 0],
                            !.childLock = NoOne]
       IN
       mlc' = IF mlc.op[c] = "stop" THEN MlcReturn(m, c)
              ELSE [m EXCEPT !.at[c] = "spawn"]
    /\ UNCHANGED <<sessions, lock, pc, call, local, snd, stats, children, ncalls,
                   inserts, lastSend, lastCall, calc, pipe, mlx>>

MlcStartOutcomes == {"no port", "spawn error", "spawned"}

\* start: find_available_port and the spawn of the sidecar, each of which
\* can fail and end start; with the child spawned start goes on to store
\* it.
SidecarSpawned(c, outcome) ==
    /\ mlc.at[c] = "spawn"
    /\ mlc' = IF outcome # "spawned" THEN MlcReturn(mlc, c)
              ELSE StoreBegins([mlc EXCEPT !.procs = Append(@, "running"),
                                           !.held[c] = Len(mlc.procs) + 1,
                                           !.snap[c] = [NoStatus EXCEPT
                                                          !.pid = Len(mlc.procs) + 1]],
                               c)
    /\ UNCHANGED <<sessions, lock, pc, call, local, snd, stats, children, ncalls,
                   inserts, lastSend, lastCall, calc, pipe, mlx>>

\* poll_health_check as spawned: all its attempts left.
NewPoll == [at |-> "snapshot", snap |-> NoStatus, left |-> MaxPollAttempts,
            healthy |-> FALSE]

\* poll_health_check has returned: the task is over and its locals gone.
PollOver == [NewPoll EXCEPT !.at = "done"]

\* start: update_status_and_emit of the running status, the health-poll
\* task is spawned and start returns.
StatusRunning(c) ==
    /\ mlc.at[c] = "status"
    /\ mlc' = MlcReturn([mlc EXCEPT
                           !.status = [is_running |-> TRUE, is_http_ready |-> FALSE,
                                       port |-> mlc.snap[c].pid,
                                       pid |-> mlc.snap[c].pid, error |-> FALSE],
                           !.polls = Append(@, NewPoll)], c)
    /\ UNCHANGED <<sessions, lock, pc, call, local, snd, stats, children, ncalls,
                   inserts, lastSend, lastCall, calc, pipe, mlx>>

\* poll_health_check: `let current_status = self.get_status().await;` and
\* the request is sent, unless no port is set.
PollSnapshot(i) ==
    /\ i \in DOMAIN mlc.polls
    /\ mlc.polls[i].at = "snapshot"
    /\ mlc' = [mlc EXCEPT !.polls[i] = IF mlc.status.port = 0 THEN PollOver
                                       ELSE [@ EXCEPT !.snap = mlc.status,
                                                      !.at = "check"]]
    /\ UNCHANGED <<sessions, lock, pc, call, local, snd, stats, children, ncalls,
                   inserts, lastSend, lastCall, calc, pipe, mlx>>

\* health_check returns: Ok only from a process that is running on the
\* port; the task then goes to write the status or, with attempts left,
\* sleeps and starts over.
PollAnswered(i, healthy) ==
    /\ i \in DOMAIN mlc.polls
    /\ mlc.polls[i].at = "check"
    /\ healthy => mlc.procs[mlc.polls[i].snap.port] = "running"
    /\ LET p == mlc.polls[i]
           left == IF healthy \/ p.left = 0 THEN p.left ELSE p.left - 1
       IN
       mlc' = [mlc EXCEPT
                 !.polls[i] =
                    IF healthy /\ p.snap.is_http_ready THEN PollOver
                    ELSE [p EXCEPT !.healthy = healthy, !.left = left,
                                   !.at = IF healthy \/ left = 0 THEN "write"
                                          ELSE "snapshot"]]
    /\ UNCHANGED <<sessions, lock, pc, call, local, snd, stats, children, ncalls,
                   inserts, lastSend, lastCall, calc, pipe, mlx>>

\* poll_health_check: update_status_and_emit of the changed copy of the
\* status read before the request.
PollWritten(i) ==
    /\ i \in DOMAIN mlc.polls
    /\ mlc.polls[i].at = "write"
    /\ LET p == mlc.polls[i] IN
       mlc' = [mlc EXCEPT
                 !.status = IF p.healthy
                            THEN [p.snap EXCEPT !.is_http_ready = TRUE,
                                                !.error = FALSE]
                            ELSE [p.snap EXCEPT !.is_http_ready = FALSE,
                                                !.error = TRUE],
                 !.polls[i] = PollOver]
    /\ UNCHANGED <<sessions, lock, pc, call, local, snd, stats, children, ncalls,
                   inserts, lastSend, lastCall, calc, pipe, mlx>>

MlcInit == Engine /\ calc = NoCalc /\ pipe = NoPipe /\ mlx = NoMlx /\ mlc = NewMlc

MlcNext ==
    \/ \E c \in Callers, op \in {"start", "stop"} : MlcCall(c, op)
    \/ \E c \in Callers, ok \in BOOLEAN : ModelCached(c, ok)
    \/ \E c \in Callers : MlcAcquire(c)
    \/ \E c \in Callers : GraceOver(c)
    \/ \E c \in Callers : StatusRead(c)
    \/ \E c \in Callers : StatusStopped(c)
    \/ \E c \in Callers, outcome \in MlcStartOutcomes : SidecarSpawned(c, outcome)
    \/ \E c \in Callers : StatusRunning(c)
    \/ \E i \in 1..MaxMlcCalls : PollSnapshot(i)
    \/ \E i \in 1..MaxMlcCalls, healthy \in BOOLEAN : PollAnswered(i, healthy)
    \/ \E i \in 1..MaxMlcCalls : PollWritten(i)

MlcSpec == MlcInit /\ [][MlcNext]_vars

\* ======================================================== properties
IOPoints == {"spawn", "write", "read", "http", "body"}
SendPoints == {"write", "read", "http", "body"}
Timeouts3 == {"write timeout", "read timeout", "http timeout"}

\* C1: an ensure call that finds its id in the map returns success without
\* a spawn, a client build or a send, and leaves the map and the child
\* processes exactly as they were, whatever transport kind or timeout it
\* asks for; hence no id is ever inserted twice.
C1_EnsureIdempotent ==
    /\ [](\A id \in Ids : inserts[id] <= 1)
    /\ [][(lastCall'.op \in EnsureOps /\ lastCall'.hit) =>
            /\ lastCall'.ok
            /\ lastCall'.spawns = 0 /\ lastCall'.builds = 0 /\ lastCall'.sends = 0
            /\ sessions' = sessions
            /\ children' = children]_vars

\* an ensure_http call has just returned success on an id whose cached
\* session is a stdio one
C1_Witness ==
    /\ lastCall.op = "ensure_http" /\ lastCall.hit /\ lastCall.ok
    /\ lastCall.id \in DOMAIN sessions
    /\ sessions[lastCall.id].kind = "stdio"

\* C2: for every id, the connection attempts in progress plus the cached
\* entry number at most one: two attempts never overlap, none runs while an
\* entry exists, and the id is inserted at most once.
Attempts(id) ==
    {c \in Callers : call[c].op \in EnsureOps /\ call[c].id = id /\ pc[c] \in IOPoints}

C2_OneAttemptPerId ==
    \A id \in Ids :
       /\ Cardinality(Attempts(id)) + (IF id \in DOMAIN sessions THEN 1 ELSE 0) <= 1
       /\ inserts[id] <= 1

\* one task is connecting an absent id while another ensure call for the
\* same id waits for the mutex
C2_Witness ==
    \E c1, c2 \in Callers :
       /\ c1 # c2
       /\ call[c1].op \in EnsureOps /\ pc[c1] \in IOPoints
       /\ call[c2].op \in EnsureOps /\ pc[c2] = "lock"
       /\ call[c1].id = call[c2].id
       /\ call[c1].id \notin DOMAIN sessions

\* C3: every cached session has had its initialize request return success;
\* an ensure call that fails leaves the map as it was, and an ensure call
\* whose initialize send failed does fail.
C3_OnlyInitializedCached ==
    /\ [](\A id \in DOMAIN sessions : sessions[id].ready)
    /\ [][(lastCall'.op \in EnsureOps /\ ~lastCall'.ok) => sessions' = sessions]_vars
    /\ [][(lastCall'.op \in EnsureOps /\ lastSend'.res \notin {"ok", "none"}) =>
            ~lastCall'.ok]_vars
    /\ [][(lastCall'.op \in EnsureOps /\ lastCall'.ok /\ ~lastCall'.hit) =>
            lastSend'.res = "ok"]_vars

\* an ensure call has just failed on a timed-out initialize read, and its
\* id is not in the map
C3_Witness ==
    /\ lastCall.op \in EnsureOps /\ ~lastCall.ok
    /\ lastSend.res = "read timeout"
    /\ lastCall.id \notin DOMAIN sessions

\* C4: at most one manager operation is past the mutex and not yet returned,
\* and it is the task that owns the mutex.
InManager(c) == call[c].op \in ManagerOps /\ pc[c] \in IOPoints

C4_OneManagerOpAtATime ==
    /\ Cardinality({c \in Callers : InManager(c)}) <= 1
    /\ \A c \in Callers : InManager(c) => lock = c

\* a call for one id is in its I/O while a call for another id waits
C4_Witness ==
    \E c1, c2 \in Callers :
       /\ InManager(c1) /\ pc[c1] \in SendPoints
       /\ pc[c2] = "lock"
       /\ call[c1].id # call[c2].id

\* C5: a send that returned success made exactly one write and then exactly
\* one read; a send waiting to write has written nothing, one waiting to read
\* has written once; and no two tasks are ever inside a send on the same
\* session.
C5_NoPipelining ==
    /\ lastSend.res = "ok" => (lastSend.writes = 1 /\ lastSend.reads = 1)
    /\ \A c \in Callers :
          /\ pc[c] \in {"write", "http"} => (snd[c].writes = 0 /\ snd[c].reads = 0)
          /\ pc[c] \in {"read", "body"} => (snd[c].writes = 1 /\ snd[c].reads = 0)
    /\ \A c1, c2 \in Callers :
          (c1 # c2 /\ pc[c1] \in SendPoints /\ pc[c2] \in SendPoints) =>
             snd[c1].conn # snd[c2].conn

\* a task is inside a send on a cached session while another task's call on
\* the same id waits
C5_Witness ==
    \E c1, c2 \in Callers :
       /\ call[c1].op \in UseOps /\ pc[c1] = "read"
       /\ call[c2].op \in UseOps /\ pc[c2] = "lock"
       /\ call[c1].id = call[c2].id

\* C6: list_tools and call_tool on an id that is not in the map fail with
\* "not connected", with no spawn, client build or send, and leave the map
\* and the child processes as they were.
C6_NotConnected ==
    [][(lastCall'.op \in UseOps /\ ~lastCall'.hit) =>
         /\ ~lastCall'.ok /\ lastCall'.err = "not connected"
         /\ lastCall'.spawns = 0 /\ lastCall'.builds = 0 /\ lastCall'.sends = 0
         /\ sessions' = sessions
         /\ children' = children]_vars

\* call_tool has just returned on an id that is not in the map, after some
\* earlier stdio connection attempt
C6_Witness ==
    /\ lastCall.op = "call_tool" /\ ~lastCall.hit
    /\ lastCall.id \notin DOMAIN sessions
    /\ children # <<>>

\* C7: no step removes an id from the map or maps it to another session
\* object; in particular a failed list_tools or call_tool leaves the entry.
C7_EntriesStay ==
    [][\A id \in DOMAIN sessions :
          /\ id \in DOMAIN sessions'
          /\ sessions'[id].conn = sessions[id].conn
          /\ sessions'[id].kind = sessions[id].kind]_vars

\* list_tools or call_tool has just failed on a cached session with a
\* timeout, a malformed response or an RPC error
C7_Witness ==
    /\ lastCall.op \in UseOps /\ ~lastCall.ok
    /\ lastCall.err \in {"read timeout", "http timeout", "parse error", "rpc error"}
    /\ lastCall.id \in DOMAIN sessions

\* C8: a send that returns a timeout failure has run for at most timeout_ms.
C8_TimeoutWithinBudget ==
    lastSend.res \in Timeouts3 => lastSend.elapsed <= lastSend.timeout_ms

\* C9: no send writes or reads more than once, no call spawns or builds a
\* client more than once, and a send that failed makes the call that issued
\* it return a failure in the same step.
C9_NoRetry ==
    /\ \A c \in Callers :
          /\ snd[c].writes <= 1 /\ snd[c].reads <= 1
          /\ stats[c].spawns <= 1 /\ stats[c].builds <= 1
    /\ lastSend.writes <= 1 /\ lastSend.reads <= 1
    /\ lastCall.spawns <= 1 /\ lastCall.builds <= 1
    /\ lastSend.res \notin {"ok", "none"} => (lastCall.op # "none" /\ ~lastCall.ok)
    /\ lastCall.err \in {"spawn timeout", "spawn error"} =>
          (lastCall.spawns = 1 /\ lastCall.sends = 0 /\ ~lastCall.ok)

\* the probe has just returned a failure after a write that timed out
C9_Witness ==
    /\ lastSend.res = "write timeout" /\ lastSend.writes = 1
    /\ lastCall.op = "check_stdio" /\ ~lastCall.ok

\* C10: on every session the request ids carried by its sends are strictly
\* increasing.
LiveSessions ==
    {sessions[id] : id \in DOMAIN sessions} \cup {local[c] : c \in Callers}

C10_IdsStrictlyIncrease ==
    \A s \in LiveSessions :
       \A i, j \in 1..Len(s.sent) : i < j => s.sent[i] < s.sent[j]

\* C11: when a stdio probe returns after having spawned a child, that child
\* is no longer running.
C11_ProbeKillsChild ==
    [][\A c \in Callers :
          (/\ call[c].op = "check_stdio" /\ call'[c].op = "none"
           /\ call[c].n \in DOMAIN children') =>
             children'[call[c].n] # "running"]_vars

\* C12: check_server returns ok = true exactly when the step that returns is
\* a successful tools/list send on a session whose initialize succeeded.
C12_OkIffBothSucceeded ==
    [][lastCall'.op \in CheckOps =>
         (lastCall'.ok <=>
            \E c \in Callers :
               /\ call[c].op \in CheckOps /\ call'[c].op = "none"
               /\ snd[c].method = MCP_METHOD_TOOLS_LIST
               /\ local[c].ready
               /\ lastSend'.res = "ok")]_vars

\* an http probe has just returned ok after its two sends
C12_Witness ==
    /\ lastCall.op = "check_http" /\ lastCall.ok
    /\ lastCall.sends = 2 /\ lastSend.res = "ok"

\* C13: the first request a session carries is initialize, and a request of
\* any other method is only ever in flight on a session whose initialize
\* request has returned success.
SessionOf(c) == IF call[c].op \in UseOps THEN sessions[call[c].id] ELSE local[c]

C13_InitializeFirst ==
    \A c \in Callers :
       pc[c] \in SendPoints =>
          /\ Len(SessionOf(c).sent) = 1 => snd[c].method = MCP_METHOD_INITIALIZE
          /\ snd[c].method # MCP_METHOD_INITIALIZE =>
                (SessionOf(c).ready /\ Len(SessionOf(c).sent) > 1)

\* a tools/call request is in flight on a cached stdio session while a probe
\* is sending tools/list on a session of its own
C13_Witness ==
    \E c1, c2 \in Callers :
       /\ pc[c1] \in SendPoints /\ snd[c1].method = MCP_METHOD_TOOLS_CALL
       /\ SessionOf(c1).kind = "stdio"
       /\ pc[c2] \in SendPoints /\ call[c2].op \in CheckOps
       /\ snd[c2].method = MCP_METHOD_TOOLS_LIST

\* C14: a cached stdio entry whose child is gone stays in the map with the
\* same session object; every list_tools and call_tool that finds it fails,
\* and ensure_stdio on it returns success with no spawn and no send, leaving
\* the map and the child processes as they were.
C14_StaleEntryStays ==
    /\ [][\A id \in DOMAIN sessions :
             Gone(sessions[id]) =>
                /\ id \in DOMAIN sessions'
                /\ sessions'[id].conn = sessions[id].conn]_vars
    /\ [][(lastCall'.op \in UseOps /\ lastCall'.dead) => ~lastCall'.ok]_vars
    /\ [][(lastCall'.op = "ensure_stdio" /\ lastCall'.dead) =>
             /\ lastCall'.ok
             /\ lastCall'.spawns = 0 /\ lastCall'.sends = 0
             /\ sessions' = sessions
             /\ children' = children]_vars

\* list_tools has just failed on its write to a cached stdio session whose
\* child had exited before the call
C14_Witness ==
    /\ lastCall.op = "list_tools" /\ lastCall.dead /\ ~lastCall.ok
    /\ lastSend.res = "write error"
    /\ sessions[lastCall.id].ready
    /\ children[sessions[lastCall.id].conn] = "exited"

\* C15: a fetched row whose enabled flag is 0 makes ensure_mcp_session
\* return "server disabled" in the step that fetched it, with no spawn, no
\* client build and no send, and the map and the child processes unchanged.
C15_DisabledRowRejected ==
    [][lastCall'.row.enabled = 0 =>
         /\ lastCall'.op = "ensure_mcp_session"
         /\ ~lastCall'.ok /\ lastCall'.err = "server disabled"
         /\ lastCall'.spawns = 0 /\ lastCall'.builds = 0 /\ lastCall'.sends = 0
         /\ sessions' = sessions
         /\ children' = children]_vars

\* a disabled but otherwise complete stdio row has just been refused for an
\* id that is not cached
C15_Witness ==
    /\ lastCall.row.enabled = 0 /\ lastCall.row.transport = "stdio"
    /\ lastCall.row.command = "cmd"
    /\ lastCall.err = "server disabled"
    /\ lastCall.id \notin DOMAIN sessions

\* C16: a fetched enabled row whose transport tag is unknown, or that is
\* stdio without a command or http without a url, makes ensure_mcp_session
\* return an error in the step that fetched it, with no spawn, no client
\* build and no send, and the map and the child processes unchanged.
Lacking(row) ==
    \/ row.transport \notin {"stdio", "http", "none"}
    \/ row.transport = "stdio" /\ row.command = "null"
    \/ row.transport = "http" /\ row.url = "null"

C16_IncompleteRowRejected ==
    [][(lastCall'.row.enabled = 1 /\ Lacking(lastCall'.row)) =>
         /\ lastCall'.op = "ensure_mcp_session"
         /\ ~lastCall'.ok
         /\ lastCall'.err \in {"unsupported transport", "missing command",
                                "missing url"}
         /\ lastCall'.spawns = 0 /\ lastCall'.builds = 0 /\ lastCall'.sends = 0
         /\ sessions' = sessions
         /\ children' = children]_vars

\* an enabled stdio row without a command, though with a url, has just been
\* refused
C16_Witness ==
    /\ lastCall.row.enabled = 1 /\ lastCall.row.transport = "stdio"
    /\ lastCall.row.command = "null" /\ lastCall.row.url = "url"
    /\ lastCall.err = "missing command"

\* C17: a stdio connection request with a blank command fails without a
\* spawn and without a send, and never gets as far as a suspension point
\* of a connection attempt.
C17_BlankCommandRejected ==
    /\ lastCall.cmd = "blank" =>
          (~lastCall.ok /\ lastCall.spawns = 0 /\ lastCall.sends = 0)
    /\ \A c \in Callers :
          call[c].cmd = "blank" => (pc[c] \notin IOPoints /\ stats[c].spawns = 0)

\* C18: every request on an http session built from a row with an auth
\* token and headers without Authorization carries an Authorization header
\* made from the token, and every request on an http session whose headers
\* hold Authorization carries that one.
C18_AuthorizationSent ==
    \A c \in Callers :
       pc[c] \in {"http", "body"} =>
          /\ (SessionOf(c).token /\ SessionOf(c).headers # "authz") =>
                snd[c].authz = "token"
          /\ SessionOf(c).headers = "authz" => snd[c].authz = "row"

\* C19: call_tool returns a string content as it is, a content array as
\* the newline-join of the texts of its text blocks in order, and the empty
\* string for any other or missing content.
TextValues(items) ==
    LET texts == SelectSeq(items, LAMBDA b : b.type = "text" /\ b.hasText) IN
    [i \in 1..Len(texts) |-> texts[i].text]

RECURSIVE JoinNL(_)
JoinNL(ts) ==
    IF ts = <<>> THEN <<>>
    ELSE IF Len(ts) = 1 THEN ts[1]
    ELSE ts[1] \o <<NL>> \o JoinNL(Tail(ts))

C19_ContentExtraction ==
    (calc.fn = "call_tool" /\ calc.done) =>
       calc.out = CASE calc.arg.t = "string" -> calc.arg.s
                    [] calc.arg.t = "array" -> JoinNL(TextValues(calc.arg.items))
                    [] OTHER -> <<>>

\* C20: parsing a tools array gives one descriptor per entry that has a
\* string name, in the order of those entries, however the entries without
\* one are placed among them.
C20_NamedEntriesKept ==
    (calc.fn = "list_tools" /\ calc.done /\ calc.arg.t = "array") =>
       LET named == SelectSeq(calc.arg.items,
                              LAMBDA e : e.name \notin {"missing", "number"})
       IN /\ Len(calc.out) = Len(named)
          /\ \A i \in 1..Len(named) : calc.out[i].name = named[i].name

\* an array with an entry whose name is not a string ahead of a well-formed
\* one has been parsed
C20_Witness ==
    /\ calc.fn = "list_tools" /\ calc.done /\ calc.arg.t = "array"
    /\ Len(calc.arg.items) = 2
    /\ calc.arg.items[1].name = "number"
    /\ calc.arg.items[2].name = "b"
    /\ Len(calc.out) = 1

\* C21: a tools/list result that is null, or whose `tools` member is absent
\* or is no array, makes list_tools return success with an empty list, and
\* makes check_server (either transport) return ok = true with tools_count
\* 0, an empty tools list and no error.
C21_NoToolsArrayIsEmptyList ==
    /\ (calc.fn = "list_tools" /\ calc.done /\ calc.arg.t # "array") =>
          (calc.ok /\ calc.out = <<>>)
    /\ (/\ calc.fn = "check_server" /\ calc.done
        /\ calc.arg.method = MCP_METHOD_TOOLS_LIST
        /\ calc.arg.kind = "http" => calc.arg.reply.status \in 200..299
        /\ calc.arg.reply.t = "json"
        /\ calc.arg.reply.doc.error = NoError
        /\ calc.arg.reply.doc.result.t # "array") =>
          /\ calc.out.ok
          /\ calc.out.tools_count = Some(0)
          /\ calc.out.tools = Some(<<>>)
          /\ calc.out.error = None

\* an http probe has returned ok with zero tools on a tools/list response
\* whose result is null
C21_Witness ==
    /\ calc.fn = "check_server" /\ calc.done /\ calc.arg.kind = "http"
    /\ calc.arg.method = MCP_METHOD_TOOLS_LIST
    /\ calc.arg.reply.t = "json" /\ calc.arg.reply.status = 200
    /\ calc.arg.reply.doc = [error |-> NoError, result |-> Null]
    /\ calc.out.ok /\ calc.out.tools_count = Some(0)

\* The entries of a parsed array that have a string name, in order: the
\* entries the descriptors of the output stand for.
NamedEntries ==
    SelectSeq(calc.arg.items, LAMBDA e : e.name \notin {"missing", "number"})

\* C22: for an entry with both schema spellings the parsed input_schema is
\* never that of `input_schema`: it is the value of `inputSchema`, or absent,
\* whichever of the two members comes first; with one spelling only it is
\* the value of that one, or absent; with neither it is absent.
C22_SchemaPrecedence ==
    (calc.fn = "list_tools" /\ calc.done /\ calc.arg.t = "array") =>
       \A i \in 1..Len(NamedEntries) :
          LET e == NamedEntries[i]
              schema == calc.out[i].input_schema
          IN
          CASE e.inputSchema # "missing" /\ e.input_schema # "missing" ->
                 schema \in {e.inputSchema, "none"} /\ schema # e.input_schema
            [] e.inputSchema # "missing" /\ e.input_schema = "missing" ->
                 schema \in {e.inputSchema, "none"}
            [] e.inputSchema = "missing" /\ e.input_schema # "missing" ->
                 schema \in {e.input_schema, "none"}
            [] OTHER -> schema = "none"

\* an entry whose `input_schema` member comes before its `inputSchema`
\* member, both objects, has been parsed to the value of `inputSchema`
C22_Witness ==
    /\ calc.fn = "list_tools" /\ calc.done /\ calc.arg.t = "array"
    /\ Len(calc.arg.items) = 1
    /\ calc.arg.items[1].first = "input_schema"
    /\ calc.arg.items[1].inputSchema = "obj1"
    /\ calc.arg.items[1].input_schema = "obj2"
    /\ Len(calc.out) = 1 /\ calc.out[1].input_schema = "obj1"

\* C23: the parsed input_schema of an entry is present whenever one of the
\* two spellings holds an object, and is then an object one of them holds;
\* a schema value that is no object is dropped, and the parse succeeds.
C23_ObjectSchemaAccepted ==
    (calc.fn = "list_tools" /\ calc.done /\ calc.arg.t = "array") =>
       /\ calc.ok
       /\ \A i \in 1..Len(NamedEntries) :
             LET e == NamedEntries[i]
                 schema == calc.out[i].input_schema
             IN
             /\ (IsObject(e.inputSchema) \/ IsObject(e.input_schema)) =>
                   (schema # "none" /\ schema \in {e.inputSchema, e.input_schema})
             /\ schema # "str"

\* C24: a decoded response with an `error` member makes send, on either
\* transport, return a failure whose text is the error's `message` when that
\* is a string and "rpc error" otherwise, whether or not there is a `result`
\* member or a `code`; the text holds nothing else.
C24_ErrorMemberFails ==
    (/\ calc.fn = "send" /\ calc.done
     /\ calc.arg.kind = "http" => calc.arg.reply.status \in 200..299
     /\ calc.arg.reply.t = "json"
     /\ calc.arg.reply.doc.error.t # "missing") =>
       LET error == calc.arg.reply.doc.error IN
       /\ ~calc.out.ok
       /\ calc.out.err = <<Lit(IF error.message = "boom" THEN "boom"
                               ELSE "rpc error")>>

\* a stdio send has failed with the message of an error object that came
\* with a code and alongside a result
C24_Witness ==
    /\ calc.fn = "send" /\ calc.done /\ calc.arg.kind = "stdio"
    /\ calc.arg.reply.t = "json"
    /\ calc.arg.reply.doc.error =
          [t |-> "object", message |-> "boom", code |-> "-32000"]
    /\ calc.arg.reply.doc.result = Null
    /\ ~calc.out.ok /\ calc.out.err = <<Lit("boom")>>

\* C25: a decoded response with neither a `result` nor an `error` member
\* makes send, on either transport, return success with the null value.
C25_NeitherMemberIsNull ==
    (/\ calc.fn = "send" /\ calc.done
     /\ calc.arg.kind = "http" => calc.arg.reply.status \in 200..299
     /\ calc.arg.reply.t = "json"
     /\ calc.arg.reply.doc = NoDoc) =>
       (calc.out.ok /\ calc.out.value = Null /\ calc.out.err = <<>>)

\* an http send has returned the null value on a 2xx response whose body is
\* a document without either member
C25_Witness ==
    /\ calc.fn = "send" /\ calc.done /\ calc.arg.kind = "http"
    /\ calc.arg.reply.status = 299
    /\ calc.arg.reply.t = "json" /\ calc.arg.reply.doc = NoDoc
    /\ calc.out.ok /\ calc.out.value = Null

\* C26: a stdio send whose read finds the stream ended, nothing having been
\* written to it, returns a failure with a message; and a stdio probe whose
\* initialize request is answered that way returns ok = false with an error
\* message and without tools and tools_count.
C26_EndOfStreamFails ==
    /\ (/\ calc.fn = "send" /\ calc.done /\ calc.arg.kind = "stdio"
        /\ calc.arg.reply.t = "empty") =>
          (~calc.out.ok /\ calc.out.err # <<>>)
    /\ (/\ calc.fn = "check_server" /\ calc.done /\ calc.arg.kind = "stdio"
        /\ calc.arg.method = MCP_METHOD_INITIALIZE
        /\ calc.arg.reply.t = "empty") =>
          /\ ~calc.out.ok
          /\ calc.out.error # None /\ calc.out.error # Some(<<>>)
          /\ calc.out.tools = None /\ calc.out.tools_count = None

\* a stdio probe has returned its failure on an initialize request that was
\* answered by the end of the stream
C26_Witness ==
    /\ calc.fn = "check_server" /\ calc.done /\ calc.arg.kind = "stdio"
    /\ calc.arg.method = MCP_METHOD_INITIALIZE
    /\ calc.arg.reply.t = "empty"
    /\ ~calc.out.ok /\ calc.out.tools = None

\* The text holds the part.
Contains(text, part) == \E i \in 1..Len(text) : text[i] = part

\* C27: an http send whose response, body included, has arrived with a
\* status outside 200..299 returns a failure whose text holds the status
\* code and the body as it came; and an http probe whose tools/list request
\* is answered that way returns ok = false with an error text that holds
\* the status code.
C27_StatusFails ==
    /\ (/\ calc.fn = "send" /\ calc.done /\ calc.arg.kind = "http"
        /\ calc.arg.reply.status \notin 200..299) =>
          /\ ~calc.out.ok
          /\ Contains(calc.out.err, Num(calc.arg.reply.status))
          /\ Contains(calc.out.err, Body(calc.arg.reply))
    /\ (/\ calc.fn = "check_server" /\ calc.done /\ calc.arg.kind = "http"
        /\ calc.arg.method = MCP_METHOD_TOOLS_LIST
        /\ calc.arg.reply.status \notin 200..299) =>
          /\ ~calc.out.ok
          /\ calc.out.error # None
          /\ Contains(calc.out.error[1], Num(calc.arg.reply.status))
          /\ calc.out.tools = None /\ calc.out.tools_count = None

\* an http probe has returned its failure on a tools/list request answered
\* with status 500 and a body that is a well-formed result
C27_Witness ==
    /\ calc.fn = "check_server" /\ calc.done /\ calc.arg.kind = "http"
    /\ calc.arg.method = MCP_METHOD_TOOLS_LIST
    /\ calc.arg.reply.status = 500 /\ calc.arg.reply.t = "json"
    /\ calc.arg.reply.doc.error = NoError
    /\ calc.arg.reply.doc.result.t = "array"
    /\ ~calc.out.ok /\ Contains(calc.out.error[1], Num(500))

\* The words a POSIX shell makes of a command line (token recognition and
\* quote removal, XCU 2.2 and 2.3): outside quotes a space ends a word, a
\* backslash makes the next character literal and a dollar sign starts an
\* expansion; within single quotes every character is literal; within
\* double quotes a backslash escapes a dollar sign, a double quote and a
\* backslash, and a dollar sign starts an expansion.  `cur` is the word
\* being read, `open` whether one is, and a quote left open is an error.
Expansion == "<expansion>"

RECURSIVE ShellRead(_, _, _, _, _)
ShellRead(rest, mode, cur, open, words) ==
    LET closed == IF open THEN Append(words, cur) ELSE words IN
    IF rest = <<>>
    THEN [ok |-> mode = "plain", words |-> closed]
    ELSE
    LET ch == Head(rest)
        more == Tail(rest)
    IN
    CASE mode = "single" ->
           IF ch = "'" THEN ShellRead(more, "plain", cur, TRUE, words)
           ELSE ShellRead(more, "single", Append(cur, ch), TRUE, words)
      [] mode = "double" ->
           CASE ch = "\"" -> ShellRead(more, "plain", cur, TRUE, words)
             [] ch = "$" -> ShellRead(more, "double", Append(cur, Expansion), TRUE, words)
             [] ch = "\\" /\ more # <<>> /\ Head(more) \in {"$", "\"", "\\"} ->
                  ShellRead(Tail(more), "double", Append(cur, Head(more)), TRUE, words)
             [] OTHER -> ShellRead(more, "double", Append(cur, ch), TRUE, words)
      [] OTHER ->
           CASE ch = " " -> ShellRead(more, "plain", <<>>, FALSE, closed)
             [] ch = "'" -> ShellRead(more, "single", cur, TRUE, words)
             [] ch = "\"" -> ShellRead(more, "double", cur, TRUE, words)
             [] ch = "$" -> ShellRead(more, "plain", Append(cur, Expansion), TRUE, words)
             [] ch = "\\" ->
                  IF more = <<>> THEN [ok |-> FALSE, words |-> closed]
                  ELSE ShellRead(Tail(more), "plain", Append(cur, Head(more)), TRUE, words)
             [] OTHER -> ShellRead(more, "plain", Append(cur, ch), TRUE, words)

ShellWords(line) == ShellRead(line, "plain", <<>>, FALSE, <<>>)

\* C28: the shell reads sh_escape(arg) as the one word arg, for every
\* string of quotes, spaces, backslashes, double quotes, dollar signs and
\* letters; and it reads the line composed for a bare command and k
\* arguments as the k + 1 words that are the command and the arguments.
C28_ShellReadsBackTheWords ==
    /\ (calc.fn = "sh_escape" /\ calc.done) =>
          ShellWords(calc.out) = [ok |-> TRUE, words |-> <<calc.arg>>]
    /\ (/\ calc.fn = "build_stdio_command" /\ calc.done
        /\ \A i \in 1..Len(calc.arg.command) : calc.arg.command[i] # "/") =>
          /\ calc.out.shell
          /\ ShellWords(calc.out.composed) =
                [ok |-> TRUE, words |-> <<calc.arg.command>> \o calc.arg.args]

\* the line of a command with a quote in its name and two arguments, a
\* backslash and a quote, has been composed
C28_Witness ==
    /\ calc.fn = "build_stdio_command" /\ calc.done
    /\ calc.arg.command = <<"a", "'">>
    /\ calc.arg.args = << <<"\\">>, <<"'">> >>
    /\ calc.out.shell
    /\ Len(ShellWords(calc.out.composed).words) = 3

\* C29: the connect timeout the adapter uses is 5000 for a row whose
\* connect_timeout_ms is missing or negative and the row's own value
\* otherwise, 0 included; mcp_list_tools calls the manager with 5000 and
\* mcp_call_tool with 20000.
C29_Timeouts ==
    /\ (calc.fn = "normalize_connect_timeout" /\ calc.done) =>
          calc.out = IF calc.arg = None THEN 5000
                     ELSE IF calc.arg[1] < 0 THEN 5000 ELSE calc.arg[1]
    /\ (calc.fn = "mcp_list_tools" /\ calc.done) =>
          (calc.out.op = "list_tools" /\ calc.out.timeout_ms = 5000)
    /\ (calc.fn = "mcp_call_tool" /\ calc.done) =>
          (calc.out.op = "call_tool" /\ calc.out.timeout_ms = 20000)

\* a row whose connect_timeout_ms is 0 has been given a connect timeout of 0
C29_Witness ==
    /\ calc.fn = "normalize_connect_timeout" /\ calc.done
    /\ calc.arg = Some(0) /\ calc.out = 0

\* C30: the merged headers hold an Authorization entry with the supplied
\* token exactly when a token is supplied and the given headers, absent or
\* of any value, hold no Authorization entry; an Authorization entry that
\* is there keeps its value, and every other entry is kept as it is.
HasAuthorization(h) ==
    /\ h # None
    /\ h[1].t = "object"
    /\ "Authorization" \in DOMAIN h[1].entries

C30_AuthorizationMerged ==
    (calc.fn = "merge_auth_header" /\ calc.done) =>
       LET h == calc.arg.headers
           auth == calc.arg.auth
       IN
       /\ (auth # None /\ ~HasAuthorization(h)) <=>
             (/\ HasAuthorization(calc.out)
              /\ auth # None
              /\ calc.out[1].entries["Authorization"] = auth[1])
       /\ HasAuthorization(h) =>
             (/\ HasAuthorization(calc.out)
              /\ calc.out[1].entries["Authorization"] =
                    h[1].entries["Authorization"])
       /\ (h # None /\ h[1].t = "object") =>
             /\ calc.out # None /\ calc.out[1].t = "object"
             /\ DOMAIN calc.out[1].entries \subseteq
                   (DOMAIN h[1].entries) \cup {"Authorization"}
             /\ \A name \in DOMAIN h[1].entries :
                   /\ name \in DOMAIN calc.out[1].entries
                   /\ calc.out[1].entries[name] = h[1].entries[name]

\* C32: when ensure_stdio returns after having spawned a child, that child
\* is owned by the session cached for the call's id or is no longer running.
C32_SpawnedChildOwnedOrKilled ==
    [][\A c \in Callers :
          (/\ call[c].op = "ensure_stdio" /\ call'[c].op = "none"
           /\ call[c].n \in DOMAIN children') =>
             \/ children'[call[c].n] # "running"
             \/ /\ call[c].id \in DOMAIN sessions'
                /\ sessions'[call[c].id].conn = call[c].n]_vars

\* C35: mcp_list_tools / mcp_call_tool invoked for an id that has a
\* connectable row and no cached session do not fail with "not connected":
\* they make a connection attempt first.
C35_LazySession ==
    (/\ lastCall.op \in UseOps
     /\ lastCall.row \in ConnectableRows
     /\ ~lastCall.hit) =>
       /\ lastCall.err # "not connected"
       /\ lastCall.spawns + lastCall.builds >= 1

\* C36: in every result of check_server, tools is present exactly when ok
\* is true, and so is tools_count, which then equals the number of entries
\* of tools; error is absent exactly when ok is true; warning is absent.
C36_CheckResultConsistent ==
    (calc.fn \in {"check_start", "check_server"} /\ calc.done) =>
       LET r == calc.out IN
       /\ (r.tools # None) <=> r.ok
       /\ (r.tools_count # None) <=> r.ok
       /\ (r.error = None) <=> r.ok
       /\ r.ok => r.tools_count[1] = Len(r.tools[1])
       /\ r.warning = None

\* a stdio probe has returned ok with one tool after a reply that held one
\* named entry
C36_Witness ==
    /\ calc.fn = "check_server" /\ calc.done
    /\ calc.arg.kind = "stdio"
    /\ calc.out.ok
    /\ calc.out.tools_count = Some(1)
    /\ Len(calc.out.tools[1]) = 1

\* C31: on a stdio session, every send that returns success returns the
\* response to its own request.
C31_ResponseOfTheRequest ==
    pipe.last.res = "ok" => pipe.last.resp = pipe.last.req

\* C33: every newline-terminated line the child's input stream has
\* received is exactly one serialized request (a partial request followed
\* by the next request on the same line is none).
RECURSIVE LinesOf(_)
LinesOf(s) ==
    IF ~HasLine(s) THEN <<>>
    ELSE <<SubSeq(s, 1, LineEnd(s) - 1)>>
         \o LinesOf(SubSeq(s, LineEnd(s) + 1, Len(s)))

C33_WholeLinesOnly ==
    \A i \in 1..Len(LinesOf(pipe.stdin)) :
       \E n \in 1..U64_MAX : LinesOf(pipe.stdin)[i] = Serialized(n)

\* C34: every manager call that has started returns, whatever the other
\* task and the peers do, and the step in which a manager call returns
\* leaves the mutex free.
C34_CallsReturn ==
    /\ \A c \in Callers : (call[c].op \in ManagerOps) ~> (call[c].op = "none")
    /\ [][\A c \in Callers :
            (call[c].op \in ManagerOps /\ call'[c].op = "none") =>
               lock' = NoOne]_vars

\* a call has just failed on a peer that did not answer within the
\* deadline, the mutex is free, and the other task is waiting for it
C34_Witness ==
    /\ lastCall.op \in ManagerOps /\ lastCall.err = "read timeout"
    /\ lock = NoOne
    /\ \E c \in Callers : pc[c] = "lock" /\ call[c].op \in ManagerOps

\* C37: every start_server call returns, also when its wait for the server
\* fails, and the process-handle mutex is free whenever no call is running.
C37_StartReturns ==
    /\ \A c \in Callers :
          (mlx # NoMlx /\ mlx.op[c] = "start_server") ~>
             (mlx.op[c] = "none")
    /\ [](mlx # NoMlx =>
            ((\A c \in Callers : mlx.op[c] = "none") => mlx.lock = NoOne))

\* C38: every server process that is running is the one in the manager's
\* child slot or is held by a call in progress (spawned and about to be
\* stored, or taken and about to be killed); hence at most one is running
\* once all calls have returned.
C38_ProcessesTracked ==
    mlc # NoMlc =>
       \A p \in DOMAIN mlc.procs :
          mlc.procs[p] = "running" =>
             (mlc.slot = p \/ \E c \in Callers : mlc.held[c] = p)

\* C39: from the return of a stop to the next call of start the status
\* reports is_running = false and is_http_ready = false.
C39_StoppedStaysStopped ==
    (mlc # NoMlc /\ mlc.quiet) =>
       (~mlc.status.is_running /\ ~mlc.status.is_http_ready)

====
